---- MODULE Spec2Model ----
(***************************************************************************)
(* Model of ai4water's experiment orchestration                           *)
(* (ai4water/experiments/_main.py): Experiments.fit and the helpers it    *)
(* calls, the read-only reload (from_config) and sort_models_by_metric,   *)
(* and the HyperOpt driver as far as fit and the tests use it.            *)
(***************************************************************************)
EXTENDS Integers, Sequences, FiniteSets, TLC

(***************************************************************************)
(* Bounds                                                                  *)
(***************************************************************************)
MaxNames == 2      \* longest include / exclude list a caller passes
MaxIter == 2       \* largest num_iterations a caller passes
MaxVal == 1        \* metric values are NaN, +inf, -inf or an integer in -1..MaxVal
MaxPrev == 2       \* most previous results handed to add_previous_results

(***************************************************************************)
(* Values: floats as the code sees them.  k is the kind of float, n the   *)
(* number when the float is finite, t the Python type that carries it.    *)
(***************************************************************************)
Num(n) == [n |-> n, t |-> "float", k |-> "num"]
NaN == [n |-> 0, t |-> "float", k |-> "nan"]
PInf == [n |-> 0, t |-> "float", k |-> "inf"]
NInf == [n |-> 0, t |-> "float", k |-> "-inf"]

Finite == {Num(n) : n \in -1..MaxVal}
Vals == Finite \cup {NaN, PInf, NInf}

\* math.isfinite
isfinite(v) == v.k = "num"

\* 1.0 - v in IEEE arithmetic
OneMinus(v) ==
    CASE v.k = "num" -> [v EXCEPT !.n = 1 - v.n]
      [] v.k = "nan" -> v
      [] v.k = "inf" -> [v EXCEPT !.k = "-inf"]
      [] v.k = "-inf" -> [v EXCEPT !.k = "inf"]

\* v > c and v < c on floats; every comparison with NaN is false
Gt(v, c) ==
    CASE v.k = "nan" \/ c.k = "nan" -> FALSE
      [] v.k = "inf" -> c.k # "inf"
      [] v.k = "-inf" -> FALSE
      [] OTHER -> c.k = "-inf" \/ (c.k = "num" /\ v.n > c.n)
Lt(v, c) == Gt(c, v)

\* np.std and friends return numpy scalars
AsNumpy(v) == [v EXCEPT !.t = "np.float64"]

(***************************************************************************)
(* Python dictionaries and lists                                          *)
(***************************************************************************)
EmptyDict == [x \in {} |-> x]
DictSet(d, key, val) == [x \in (DOMAIN d) \cup {key} |-> IF x = key THEN val ELSE d[x]]
DictPop(d, key) == [x \in (DOMAIN d) \ {key} |-> d[x]]
Elems(s) == {s[j] : j \in DOMAIN s}
SeqsUpTo(S, n) == UNION {[1..m -> S] : m \in 0..n}

\* list.remove(elem): drops the first occurrence
ListRemove(s, elem) ==
    LET first == CHOOSE j \in DOMAIN s : s[j] = elem /\ \A h \in 1..(j - 1) : s[h] # elem
    IN  [j \in 1..(Len(s) - 1) |-> IF j < first THEN s[j] ELSE s[j + 1]]

(***************************************************************************)
(* Variant names.  A name is the text after an optional 'model_' prefix.  *)
(***************************************************************************)
Name(base) == [base |-> base, pfx |-> FALSE]
\* 'model_' + m if not m.startswith('model_') else m
WithPrefix(m) == [m EXCEPT !.pfx = TRUE]
\* model_type.split('model_')[1]
ShortName(m) == [m EXCEPT !.pfx = FALSE]

Bases == {"A", "B", "C"}
\* the builder methods model_A, model_B, model_C that dir(self) finds, in order
Builders == <<WithPrefix(Name("A")), WithPrefix(Name("B")), WithPrefix(Name("C"))>>
\* names a caller may write: each variant with and without prefix, and a name of no variant
CallerNames == {Name(b) : b \in Bases \cup {"Z"}} \cup {WithPrefix(Name(b)) : b \in Bases}

(***************************************************************************)
(* Metrics                                                                 *)
(***************************************************************************)
Monitor == [regression |-> <<"r2", "corr_coeff", "mse", "rmse", "r2_score", "nse", "kge",
                             "mape", "pbias", "bias", "mae", "nrmse", "mase">>,
            classification |-> <<"accuracy", "precision", "recall", "mse">>]
Modes == {"regression", "classification"}
MetricNames == Elems(Monitor.regression) \cup Elems(Monitor.classification)
                   \cup {"r2_mod", "r2_adj", "f1_score"}


(***************************************************************************)
(* State                                                                   *)
(***************************************************************************)
VARIABLES
    models,             \* self.models: the resolved variant set, in order
    subclass,           \* the Experiments subclass the experiment is an instance of
    val_metric,         \* model_kws['val_metric'], the designated validation metric
    pc,                 \* where the current fit call is: idle, loop, search, done, raised
    args,               \* the arguments of the current fit call
    include,            \* fit's local list `include` after validation and exclusion
    pos,                \* index into include of the variant the for loop is at
    metrics,            \* self.metrics
    features,           \* self.features
    iter_metrics,       \* self.iter_metrics
    config,             \* self.config: eval_models and optimized_models
    model_,             \* self.model_, the current model handle
    optimizer,          \* self.optimizer, the HyperOpt driver of the current search
    iter_,              \* self.iter_
    model_iter_metric,  \* self.model_iter_metric
    opt_dirs,           \* ranked checkpoints each variant's search directory holds
    log,                \* what the current fit call has done so far, in order
    disk,               \* config.json, metrics.json and features.json of exp_path
    loaded,             \* the experiment from_config returned last
    sorted,             \* the frame sort_models_by_metric returned last
    cv_scores_,         \* self.cv_scores_, None until _reset or from_config sets it
    fits,               \* how many fit calls the caller has made
    array,              \* the trial history handed to sort_array
    convergence,        \* what sort_array returned
    para,               \* a Real, Integer or Categorical parameter of the search space
    raum,               \* what serialize() of the parameter returned
    rendered,           \* what the backends were handed for the parameter
    monitor_arg,        \* the monitor argument the constructor was called with
    cases,              \* self.cases: the canonical names in order, and the overrides of each
    dl,                 \* a DLRegressionExperiments: its static spaces, model_kws, param_space and x0
    plotted,            \* what plot_cv_scores did last
    process             \* the Real and Integer classes and the parameters constructed so far

\* the state outside the experiment: the helper sort_array and the search-space parameters
later == <<dl, plotted, process>>
extra == <<rendered, monitor_arg, cases, later>>
aside == <<array, convergence, para, raum, extra>>

vars == <<models, subclass, val_metric, pc, args, include, pos, metrics, features, iter_metrics,
          config, model_, optimizer, iter_, model_iter_metric, opt_dirs, log, disk, loaded,
          sorted, cv_scores_, fits, aside>>

None == [none |-> TRUE]

\* nothing has been rendered yet, and the constructor was called with monitor=None
InitLater ==
    /\ dl = None
    /\ plotted = None
    /\ process = None

InitExtra ==
    /\ InitLater
    /\ rendered = None
    /\ monitor_arg = None

(***************************************************************************)
(* Argument validation of fit                                              *)
(***************************************************************************)
\* An argument that is None, one string or a list of strings
ArgNone == [kind |-> "None", val |-> <<>>]
ArgStr(m) == [kind |-> "str", val |-> <<m>>]
ArgList(s) == [kind |-> "list", val |-> s]

\* _check_include_arg: the list of prefixed names, or the failed assertion
_check_include_arg(inc, mods) ==
    LET given == IF inc.kind = "None" THEN mods ELSE inc.val
        named == [j \in DOMAIN given |-> WithPrefix(given[j])]
    IN  [raised |-> \E j \in DOMAIN named : named[j] \notin Elems(mods), val |-> named]

\* consider_exclude: walks the prefixed exclude list, asserting each element is a
\* model and is in models_to_filter, and removing it from models_to_filter
RECURSIVE exclude_loop(_, _, _)
exclude_loop(exc, mods, to_filter) ==
    IF exc = <<>> THEN [raised |-> FALSE, val |-> to_filter]
    ELSE IF Head(exc) \notin Elems(mods) THEN [raised |-> TRUE, val |-> to_filter]
    ELSE IF Head(exc) \notin Elems(to_filter) THEN [raised |-> TRUE, val |-> to_filter]
    ELSE exclude_loop(Tail(exc), mods, ListRemove(to_filter, Head(exc)))

consider_exclude(exc, mods, to_filter) ==
    exclude_loop([j \in DOMAIN exc |-> WithPrefix(exc[j])], mods, to_filter)

\* fit's local `exclude` after lines 272-287: '' and None become [], a string a list
exclude_list(exc) == exc.val


(***************************************************************************)
(* The trainable-model collaborator, seen through what it returns          *)
(***************************************************************************)
\* What predict returns, reduced to what the experiment reads from it: v, the value
\* every metric takes on the (true, predicted) pair, and std, np.std of the prediction
\* ... and cv, the score cross_val_score of the model computes when it is used
ResultCv(v, std, cv) == [v |-> v, std |-> std, cv |-> cv]
Result(v, std) == ResultCv(v, std, Num(0))
ResultsOver(VS) == {Result(v, Num(1)) : v \in VS}
TrueStd == Num(1)
NoResult == Result(NaN, NaN)

\* getattr(metrics, metric)() of Metrics[mode](true, predicted)
Metrics(r, metric) == r.v

\* self.mode: both subclasses of the repository are regression experiments
Subclasses == {"DLRegressionExperiments", "TransformationExperiments"}
mode == "regression"
\* self.monitor as the constructor sets it when monitor is None
monitor == Monitor[mode]

\* A parameter assignment the search suggests, as the dict objective_fn receives
Assignments == {[x |-> 1], [x |-> 2], [lookback |-> 2]}
NoParas == [x \in {} |-> 0]
\* best_paras.get('lookback', 1)
Lookback(paras) == IF "lookback" \in DOMAIN paras THEN paras.lookback ELSE 1

\* How one build-and-train can end: no exception, Model(...) raises, or training raises
Raises == {"no", "build", "fit"}

\* title: f"{exp_name}{SEP}{model_name}" and f"{exp_name}{SEP}{model_type}{SEP}best"
Title(name, best) == [m |-> name, best |-> best]

\* The handle _build stores in self.model_; path is the directory Model derives from prefix
Model(title, kws) ==
    [title |-> title, kws |-> kws, path |-> title, val_metric |-> val_metric,
     origin |-> "built", trained |-> FALSE, cross_val |-> None]

\* The configuration a builder method model_X(**suggested_paras) returns
builder(model_type, paras) == [key |-> ShortName(model_type), paras |-> paras]
\* dict.update: the keys of x replace those of c
update(c, x) == [k \in (DOMAIN c) \cup (DOMAIN x) |-> IF k \in DOMAIN x THEN x[k] ELSE c[k]]

Event(ev, m, what) == [ev |-> ev, m |-> m, what |-> what]

(***************************************************************************)
(* _populate_results                                                       *)
(***************************************************************************)
features_entry(train, test) ==
    [train |-> [true |-> [std |-> AsNumpy(TrueStd)], simulation |-> [std |-> AsNumpy(train.std)]],
     test |-> [true |-> [std |-> AsNumpy(TrueStd)], simulation |-> [std |-> AsNumpy(test.std)]]]

metrics_of_finite(r) ==
    [m \in Elems(monitor) |-> IF isfinite(Metrics(r, m)) THEN Metrics(r, m) ELSE Num(9999)]
metrics_of(r) == [m \in Elems(monitor) |-> Metrics(r, m)]

metrics_entry(train, test) == [train |-> metrics_of(train), test |-> metrics_of(test)]

\* the key under which _populate_results stores: 'model_' is put in front if missing
populate_key(model_type) == IF model_type.pfx THEN model_type ELSE WithPrefix(model_type)

(***************************************************************************)
(* _evaluate                                                               *)
(***************************************************************************)
\* the metrics whose value _evaluate turns into 1 - value
Flipped == {"r2", "nse", "kge", "r2_mod", "r2_adj", "r2_score", "accuracy", "f1_score"}
Sentinel == 9999

\* val_score before the isfinite test
objective(r, vm) == IF vm \in Flipped THEN OneMinus(Metrics(r, vm)) ELSE Metrics(r, vm)

_evaluate_unchecked(r, vm) == objective(r, vm)

\* val_score as returned
_evaluate(r, vm) == IF isfinite(objective(r, vm)) THEN objective(r, vm) ELSE Num(Sentinel)

(***************************************************************************)
(* The HyperOpt driver                                                     *)
(***************************************************************************)
\* HyperOpt(...): a driver with its budget, nothing observed and nothing evaluated yet
HyperOpt(opt_path, num_iterations) ==
    [opt_path |-> opt_path, num_iterations |-> num_iterations, history |-> <<>>,
     prev |-> <<>>, seeded |-> 0, calls |-> 0, running |-> FALSE]

\* one evaluation of the objective recorded by the driver
observe(opt, x, y) ==
    [opt EXCEPT !.history = Append(@, [x |-> x, y |-> y]), !.calls = @ + 1]

\* best_paras(): the assignment of the first trial with the smallest objective
best_index(opt) ==
    CHOOSE j \in DOMAIN opt.history :
        /\ \A h \in DOMAIN opt.history : ~Lt(opt.history[h].y, opt.history[j].y)
        /\ \A h \in 1..(j - 1) : Lt(opt.history[j].y, opt.history[h].y)
best_paras(opt) == opt.history[best_index(opt)].x


(***************************************************************************)
(* Persistence                                                             *)
(***************************************************************************)
\* jsonize on a float: numpy scalars become Python floats
jsonize(v) == [v EXCEPT !.t = "float"]
\* json.dump of a float: its literal
json_dump(v) ==
    CASE v.k = "nan" -> [lit |-> "NaN", n |-> 0]
      [] v.k = "inf" -> [lit |-> "Infinity", n |-> 0]
      [] v.k = "-inf" -> [lit |-> "-Infinity", n |-> 0]
      [] OTHER -> [lit |-> "number", n |-> v.n]
\* json.load of a literal: a Python float
json_load(tok) ==
    CASE tok.lit = "NaN" -> NaN
      [] tok.lit = "Infinity" -> PInf
      [] tok.lit = "-Infinity" -> NInf
      [] OTHER -> Num(tok.n)

save(v) == json_dump(jsonize(v))

\* one conversion of a leaf of a table, by its name
convert(how, v) ==
    CASE how = "jsonize" -> jsonize(v)
      [] how = "save" -> save(v)
      [] how = "load" -> json_load(v)

\* the two tables, leaf by leaf
map_metrics(how, tab) ==
    [m \in DOMAIN tab |-> [sp \in DOMAIN tab[m] |->
        [k \in DOMAIN tab[m][sp] |-> convert(how, tab[m][sp][k])]]]
map_features(how, tab) ==
    [m \in DOMAIN tab |-> [sp \in DOMAIN tab[m] |->
        [a \in DOMAIN tab[m][sp] |->
            [k \in DOMAIN tab[m][sp][a] |-> convert(how, tab[m][sp][a][k])]]]]

\* save_json_file(fpath, obj): json.dump(jsonize(obj), fp)
save_json_file(kind, obj) ==
    IF kind = "metrics" THEN map_metrics("save", obj) ELSE map_features("save", obj)
\* load_json_file(fpath)
load_json_file(kind, text) ==
    IF kind = "metrics" THEN map_metrics("load", text) ELSE map_features("load", text)

NoDisk == [written |-> FALSE]
NotLoaded == [loaded |-> FALSE]

(***************************************************************************)
(* Init                                                                    *)
(***************************************************************************)
\* the cases argument: the pairs of a dict in insertion order; None is taken as {}
NoCases == <<>>
\* the keys of self.cases in order: every key with 'model_' in front, once
RECURSIVE case_keys(_)
case_keys(arg) ==
    IF arg = <<>> THEN <<>>
    ELSE LET before == case_keys(SubSeq(arg, 1, Len(arg) - 1))
             key == WithPrefix(arg[Len(arg)].key)
         IN  IF key \in Elems(before) THEN before ELSE Append(before, key)
\* self.cases: a later pair of the same canonical name replaces the earlier one
self_cases(arg) ==
    [order |-> case_keys(arg),
     at |-> [k \in Elems(case_keys(arg)) |->
                arg[CHOOSE j \in DOMAIN arg :
                        /\ WithPrefix(arg[j].key) = k
                        /\ \A h \in DOMAIN arg : WithPrefix(arg[h].key) = k => h <= j].val]]

\* Experiments.__init__, for a model whose val_metric is one of VMS
__init__(VMS, arg) ==
    /\ cases = self_cases(arg)
    /\ models = Builders \o self_cases(arg).order
    /\ subclass \in Subclasses
    /\ val_metric \in VMS
    /\ pc = "idle"
    /\ args = None
    /\ include = <<>>
    /\ pos = 0
    /\ metrics = EmptyDict
    /\ features = EmptyDict
    /\ iter_metrics = EmptyDict
    /\ config = [eval_models |-> EmptyDict, optimized_models |-> EmptyDict]
    /\ model_ = None
    /\ optimizer = None
    /\ iter_ = 0
    /\ model_iter_metric = EmptyDict
    /\ opt_dirs = EmptyDict
    /\ log = <<>>
    /\ disk = NoDisk
    /\ loaded = NotLoaded
    /\ sorted = None
    /\ cv_scores_ = None
    /\ fits = 0

\* ... with no trial history and no parameter aside
InitWith(VMS) ==
    /\ __init__(VMS, NoCases)
    /\ array = None
    /\ convergence = None
    /\ para = None
    /\ raum = None
    /\ InitExtra

(***************************************************************************)
(* fit, up to the for loop (lines 268-291)                                 *)
(***************************************************************************)
RunTypes == {"optimize", "dry_run"}
PostOptimizePolicies == {"eval_best", "train_best"}

FitArgs(run_type, post_optimize, inc, exc, num_iterations) ==
    [run_type |-> run_type, post_optimize |-> post_optimize, include |-> inc,
     exclude |-> exc, num_iterations |-> num_iterations, cross_validate |-> FALSE]
\* the same call with cross_validate=True
WithCrossValidate(a) == [a EXCEPT !.cross_validate = TRUE]

fit_raises_modes_only(a) ==
    \/ a.run_type \notin RunTypes
    \/ a.post_optimize \notin PostOptimizePolicies

\* TRUE when one of the checks before _reset fails
fit_raises(a) ==
    \/ a.run_type \notin RunTypes
    \/ a.post_optimize \notin PostOptimizePolicies
    \/ _check_include_arg(a.include, models).raised
    \/ consider_exclude(exclude_list(a.exclude), models,
                        _check_include_arg(a.include, models).val).raised

\* _reset on one table: self.metrics = {} and the like
_reset_keeps(table) == table
_reset(table) == EmptyDict

fit(a) ==
    /\ pc = "idle"
    /\ args' = a
    /\ fits' = fits + 1
    /\ IF fit_raises(a)
       THEN /\ pc' = "raised"
            /\ UNCHANGED <<include, pos, metrics, features, iter_metrics, config, log, cv_scores_>>
       ELSE /\ pc' = "loop"
            /\ include' = consider_exclude(exclude_list(a.exclude), models,
                                           _check_include_arg(a.include, models).val).val
            /\ pos' = 1
            /\ cv_scores_' = _reset(cv_scores_)
            /\ metrics' = _reset(metrics)
            /\ features' = _reset(features)
            /\ iter_metrics' = _reset(iter_metrics)
            /\ config' = [eval_models |-> _reset(config.eval_models),
                          optimized_models |-> _reset(config.optimized_models)]
            /\ log' = <<>>
    /\ UNCHANGED <<aside, models, subclass, val_metric, model_, optimizer, iter_,
                   model_iter_metric, opt_dirs, disk, loaded, sorted>>

(***************************************************************************)
(* fit, the for loop (lines 293-367)                                       *)
(***************************************************************************)
model_type == include[pos]
model_name == ShortName(model_type)
in_loop_or_search == pc \in {"loop", "search"} /\ pos <= Len(include)
in_loop == pc = "loop" /\ pos <= Len(include)
\* `model_type not in exclude`, on fit's own exclude list
excluded == model_type \in Elems(exclude_list(args.exclude))

\* _build and _fit of _build_and_run: the handle self.model_ ends with, and the log
\* _fit: with cross_validate the model's cross_val_score is called instead of its fit,
\* and leaves the scores in the attribute cross_val_<val_metric> of the model
cross_val_score(preds) ==
    IF "validation" \in DOMAIN preds THEN preds.validation.cv ELSE preds.training.cv

built_model(raises, title, kws, preds, cross_validate) ==
    IF raises = "build" THEN model_
    ELSE IF raises = "fit" THEN Model(title, kws)
    ELSE [Model(title, kws) EXCEPT !.trained = TRUE,
                                   !.cross_val = IF cross_validate THEN cross_val_score(preds)
                                                 ELSE None]
         @@ [pred |-> preds]
built_log(raises, title, kws) ==
    log \o <<Event("build", title, kws)>>
        \o (IF raises = "build" THEN <<>> ELSE <<Event("train", title, kws)>>)
        \o (IF raises = "no" THEN <<>> ELSE <<Event("raise", title, [in |-> raises])>>)

\* where fit is after _build_and_run returned or raised: fit has no handler, so an
\* exception leaves it
resume_caught(raises, at) == at
resume(raises, at) == IF raises = "no" THEN at ELSE "raised"

\* lines 358-367, after the variant's run: eval_models and iter_metrics
\* getattr(self.model_, f'cross_val_{cv_scoring}') finds no such attribute
no_cross_val(handle) == args.cross_validate /\ handle.cross_val = None

record_variant(handle, snapshots) ==
    /\ config' = [config EXCEPT !.eval_models = DictSet(@, model_type, handle.path)]
    /\ cv_scores_' = IF args.cross_validate /\ ~no_cross_val(handle)
                     THEN DictSet(cv_scores_, model_type, handle.cross_val)
                     ELSE cv_scores_
    /\ iter_metrics' = IF no_cross_val(handle) THEN iter_metrics
                       ELSE DictSet(iter_metrics, model_type, snapshots)

\* an excluded name that is still in include is passed over
Skip ==
    /\ in_loop
    /\ excluded
    /\ pos' = pos + 1
    /\ UNCHANGED <<aside, fits, cv_scores_, models, subclass, val_metric, pc, args, include, metrics, features,
                   iter_metrics, config, model_, optimizer, iter_, model_iter_metric,
                   opt_dirs, log, disk, loaded, sorted>>

\* self.monitor is assigned only `if monitor is None` (lines 138-139): with any other
\* argument the attribute does not exist and `for metric in self.monitor` raises
unset_monitor == monitor_arg # None
\* how the run of a variant ends: as its build and fit end, or in that AttributeError
outcome(raises) == IF raises = "no" /\ unset_monitor THEN "monitor" ELSE raises

\* objective_fn, lines 304-315: the configuration of the model to build.  A variant with
\* a case takes self.cases[model_type] itself and updates it with the suggested
\* parameters; any other variant calls its builder method
has_case == model_type \in DOMAIN cases.at
config_of(paras) ==
    IF has_case THEN [case |-> update(cases.at[model_type], paras)]
    ELSE builder(model_type, paras)
cases_after(paras) ==
    IF has_case THEN [cases EXCEPT !.at[model_type] = update(@, paras)] ELSE cases

\* run_type == 'dry_run': objective_fn() and _populate_results
dry_run(raises, train, test) ==
    /\ in_loop
    /\ ~excluded
    /\ args.run_type = "dry_run"
    /\ model_iter_metric' = EmptyDict
    /\ iter_' = 0
    /\ LET title == Title(model_name, FALSE)
           kws == config_of(NoParas)
           handle == built_model(raises, title, kws, [training |-> train, test |-> test],
                                 args.cross_validate)
       IN  /\ model_' = handle
           /\ log' = built_log(outcome(raises), title, kws)
           /\ IF outcome(raises) # "no"
              THEN /\ pc' = resume(outcome(raises), "loop")
                   /\ features' = IF outcome(raises) = "monitor"
                                  THEN DictSet(features, populate_key(model_name),
                                               features_entry(handle.pred.training,
                                                              handle.pred.test))
                                  ELSE features
                   /\ UNCHANGED <<pos, metrics, config, iter_metrics, cv_scores_>>
              ELSE /\ pc' = "loop"
                   /\ pos' = pos + 1
                   /\ metrics' = DictSet(metrics, populate_key(model_name),
                                         metrics_entry(handle.pred.training, handle.pred.test))
                   /\ features' = DictSet(features, populate_key(model_name),
                                          features_entry(handle.pred.training, handle.pred.test))
                   /\ record_variant(handle, EmptyDict)
    /\ UNCHANGED <<aside, fits, models, subclass, val_metric, args, include, optimizer,
                   opt_dirs, disk, loaded, sorted>>

start_search_keeps_count ==
    /\ in_loop
    /\ ~excluded
    /\ args.run_type = "optimize"
    /\ UNCHANGED <<model_iter_metric, iter_>>
    /\ optimizer' = [HyperOpt(model_name, args.num_iterations) EXCEPT !.running = TRUE]
    /\ pc' = "search"
    /\ UNCHANGED <<aside, fits, cv_scores_, models, subclass, val_metric, args, include, pos, metrics, features,
                   iter_metrics, config, model_, opt_dirs, log, disk, loaded, sorted>>

\* run_type == 'optimize': the builder is called once, the driver is made and started
start_search ==
    /\ in_loop
    /\ ~excluded
    /\ args.run_type = "optimize"
    /\ model_iter_metric' = EmptyDict
    /\ iter_' = 0
    /\ optimizer' = [HyperOpt(model_name, args.num_iterations) EXCEPT !.running = TRUE]
    /\ pc' = "search"
    /\ UNCHANGED <<aside, fits, cv_scores_, models, subclass, val_metric, args, include, pos, metrics, features,
                   iter_metrics, config, model_, opt_dirs, log, disk, loaded, sorted>>

\* one call of objective_fn by the driver: build, train, _evaluate
trial(x, raises, r) ==
    /\ pc = "search"
    /\ optimizer.calls < optimizer.num_iterations
    /\ LET title == Title(model_name, FALSE)
           kws == config_of(x)
           handle == built_model(raises, title, kws, [validation |-> r], args.cross_validate)
       IN  /\ model_' = handle
           /\ log' = built_log(outcome(raises), title, kws)
           /\ IF outcome(raises) # "no"
              THEN /\ pc' = resume(outcome(raises), "search")
                   /\ UNCHANGED <<model_iter_metric, iter_, optimizer>>
              ELSE /\ pc' = "search"
                   /\ model_iter_metric' =
                          DictSet(model_iter_metric, iter_, metrics_of(handle.pred.validation))
                   /\ iter_' = iter_ + 1
                   /\ optimizer' = observe(optimizer, x,
                                           _evaluate(handle.pred.validation, handle.val_metric))
    /\ cases' = cases_after(x)
    /\ UNCHANGED <<later, array, convergence, para, raum, rendered, monitor_arg, fits, cv_scores_, models, subclass, val_metric, args, include, pos, metrics, features,
                   iter_metrics, config, opt_dirs, disk, loaded, sorted>>


(***************************************************************************)
(* Post-optimization: eval_best and train_best                             *)
(***************************************************************************)
\* the checkpoints clear_weights may report, by the rank tag that leads their name
Ranks == {1, 2}

\* the reported checkpoints in the order the loop of eval_best visits them
RECURSIVE in_order(_)
in_order(S) ==
    IF S = {} THEN <<>>
    ELSE LET least == CHOOSE n \in S : \A h \in S : n <= h
         IN  <<least>> \o in_order(S \ {least})

\* mod.startswith('1_')
is_best(rank) == rank = 1

\* the handle build_from_config makes from a checkpoint
reloaded_model(name, rank, train, test) ==
    [title |-> Title(name, FALSE), kws |-> None, path |-> [m |-> name, ckpt |-> rank],
     val_metric |-> val_metric, origin |-> "reloaded", trained |-> TRUE, cross_val |-> None,
     pred |-> [training |-> train, test |-> test]]

\* self.model_ after the loop of eval_best: DLRegressionExperiments.build_from_config
\* stores the reloaded handle, TransformationExperiments.build_from_config does not
after_reload(ckpts, train, test) ==
    IF subclass = "DLRegressionExperiments" /\ ckpts # {}
    THEN reloaded_model(model_name, in_order(ckpts)[Len(in_order(ckpts))], train, test)
    ELSE model_

reload_log(ckpts) ==
    log \o [j \in 1..Cardinality(ckpts) |-> Event("reload", Title(model_name, FALSE),
                                                  [ckpt |-> in_order(ckpts)[j]])]

\* model={_model: best_paras} of train_best
best_kws(name, paras) ==
    [key |-> IF Lookback(paras) > 1 THEN Name("layers") ELSE name, paras |-> paras]

falls_back_never(ckpts) == Cardinality(ckpts) < 0

\* TRUE when eval_best hands over to train_best
falls_back(ckpts) == Cardinality(ckpts) < 1

\* the search is over: optimized_models is recorded, then eval_best or train_best runs,
\* then lines 358-367
post_optimize(ckpts, raises, train, test) ==
    /\ pc = "search"
    /\ optimizer.calls = optimizer.num_iterations
    /\ optimizer' = [optimizer EXCEPT !.running = FALSE]
    /\ opt_dirs' = DictSet(opt_dirs, model_name, ckpts)
    /\ LET retrain == args.post_optimize = "train_best" \/ falls_back(ckpts)
           title == Title(model_name, TRUE)
           kws == best_kws(model_name, best_paras(optimizer))
           \* train_best calls _build_and_run without cross_validate
           handle == IF retrain
                     THEN built_model(raises, title, kws, [training |-> train, test |-> test],
                                      FALSE)
                     ELSE after_reload(ckpts, train, test)
           populates == IF retrain THEN raises = "no" ELSE \E c \in ckpts : is_best(c)
           failed == retrain /\ raises # "no"
           \* line 364 raises AttributeError
           no_score == IF failed THEN "no" ELSE IF no_cross_val(handle) THEN "getattr" ELSE "no"
       IN  /\ model_' = handle
           /\ log' = (IF retrain THEN built_log(raises, title, kws) ELSE reload_log(ckpts))
                      \o (IF no_score = "no" THEN <<>>
                          ELSE <<Event("raise", Title(model_name, FALSE), [in |-> no_score])>>)
           /\ metrics' = IF populates
                         THEN DictSet(metrics, populate_key(model_name), metrics_entry(train, test))
                         ELSE metrics
           /\ features' = IF populates
                          THEN DictSet(features, populate_key(model_name), features_entry(train, test))
                          ELSE features
           /\ IF failed
              THEN /\ pc' = resume(raises, "search")
                   /\ config' = [config EXCEPT !.optimized_models = DictSet(@, model_type, model_name)]
                   /\ UNCHANGED <<pos, iter_metrics, cv_scores_>>
              ELSE /\ pc' = resume(no_score, "loop")
                   /\ pos' = IF no_score = "no" THEN pos + 1 ELSE pos
                   /\ config' = [eval_models |-> DictSet(config.eval_models, model_type, handle.path),
                                 optimized_models |-> DictSet(config.optimized_models, model_type, model_name)]
                   /\ cv_scores_' = IF args.cross_validate /\ ~no_cross_val(handle)
                                    THEN DictSet(cv_scores_, model_type, handle.cross_val)
                                    ELSE cv_scores_
                   /\ iter_metrics' = IF no_score = "no"
                                      THEN DictSet(iter_metrics, model_type, model_iter_metric)
                                      ELSE iter_metrics
    /\ UNCHANGED <<aside, fits, models, subclass, val_metric, args, include, iter_,
                   model_iter_metric, disk, loaded, sorted>>

(***************************************************************************)
(* fit, after the loop (lines 369-374), and from_config                    *)
(***************************************************************************)
persist ==
    /\ pc = "loop"
    /\ pos > Len(include)
    /\ pc' = "done"
    /\ disk' = [written |-> TRUE,
                config |-> [models |-> models, eval_models |-> config.eval_models,
                            optimized_models |-> config.optimized_models],
                metrics |-> save_json_file("metrics", metrics),
                features |-> save_json_file("features", features)]
    /\ log' = Append(log, Event("save", None, None))
    /\ UNCHANGED <<aside, fits, cv_scores_, models, subclass, val_metric, args, include, pos, metrics, features,
                   iter_metrics, config, model_, optimizer, iter_, model_iter_metric,
                   opt_dirs, loaded, sorted>>

from_config_metrics_only ==
    /\ disk.written
    /\ loaded' = [loaded |-> TRUE,
                  config |-> disk.config,
                  metrics |-> load_json_file("metrics", disk.metrics),
                  features |-> EmptyDict]
    /\ UNCHANGED <<aside, fits, cv_scores_, models, subclass, val_metric, pc, args, include, pos, metrics, features,
                   iter_metrics, config, model_, optimizer, iter_, model_iter_metric,
                   opt_dirs, log, disk, sorted>>

\* from_config(config_path): the tables are read from the files next to the run config
from_config ==
    /\ disk.written
    /\ loaded' = [loaded |-> TRUE,
                  config |-> disk.config,
                  metrics |-> load_json_file("metrics", disk.metrics),
                  features |-> load_json_file("features", disk.features)]
    /\ UNCHANGED <<aside, fits, cv_scores_, models, subclass, val_metric, pc, args, include, pos, metrics, features,
                   iter_metrics, config, model_, optimizer, iter_, model_iter_metric,
                   opt_dirs, log, disk, sorted>>


(***************************************************************************)
(* sort_models_by_metric                                                   *)
(***************************************************************************)
\* the rows of df: one per key of self.metrics, with the train and the test value
frame_row(m, metric_name) ==
    [model |-> m, train |-> metrics[m].train[metric_name], test |-> metrics[m].test[metric_name]]

\* df.dropna(): a row goes when its train or its test value is NaN
dropna(rows) == {r \in rows : r.train.k # "nan" /\ r.test.k # "nan"}

\* df.sort_values(by=[sort_by], ascending=False): every order of the rows in which the
\* values do not increase and NaN comes last; rows with equal values come in any order
sort_values(rows, sort_by) ==
    {sq \in [1..Cardinality(rows) -> rows] :
        /\ \A j, h \in DOMAIN sq : j # h => sq[j] # sq[h]
        /\ \A j, h \in DOMAIN sq : j < h =>
               /\ ~Gt(sq[h][sort_by], sq[j][sort_by])
               /\ sq[j][sort_by].k = "nan" => sq[h][sort_by].k = "nan"}

passes_cutoff_or_equal(v, cutoff_type, cutoff_val) ==
    IF cutoff_type = "None" THEN TRUE
    ELSE IF cutoff_type = "greater" THEN Gt(v, cutoff_val) \/ v = cutoff_val
    ELSE Lt(v, cutoff_val)

\* the row filter of lines 1099-1104
passes_cutoff(v, cutoff_type, cutoff_val) ==
    IF cutoff_type = "None" THEN TRUE
    ELSE IF cutoff_type = "greater" THEN Gt(v, cutoff_val)
    ELSE Lt(v, cutoff_val)

RECURSIVE select_rows(_, _, _, _)
select_rows(sq, sort_by, cutoff_type, cutoff_val) ==
    IF sq = <<>> THEN <<>>
    ELSE (IF passes_cutoff(Head(sq)[sort_by], cutoff_type, cutoff_val) THEN <<Head(sq)>> ELSE <<>>)
         \o select_rows(Tail(sq), sort_by, cutoff_type, cutoff_val)

CutoffTypes == {"None", "greater", "greater_equal", "less", "less_equal"}
Splits == {"train", "test"}

sort_models_by_metric(metric_name, cutoff_val, cutoff_type, ignore_nans, sort_by) ==
    /\ pc = "done"
    /\ sorted = None
    /\ LET rows == {frame_row(m, metric_name) : m \in DOMAIN metrics}
           kept == IF ignore_nans THEN dropna(rows) ELSE rows
           call == [metric_name |-> metric_name, cutoff_val |-> cutoff_val,
                    cutoff_type |-> cutoff_type, ignore_nans |-> ignore_nans,
                    sort_by |-> sort_by]
       IN  IF cutoff_type # "None" /\ cutoff_val = None
           THEN \* assert cutoff_val is not None
                sorted' = call @@ [raised |-> TRUE, df |-> <<>>]
           ELSE \E df \in sort_values(kept, sort_by) :
                    sorted' = call @@ [raised |-> FALSE,
                                       df |-> select_rows(df, sort_by, cutoff_type, cutoff_val)]
    /\ UNCHANGED <<aside, fits, cv_scores_, models, subclass, val_metric, pc, args, include, pos, metrics, features,
                   iter_metrics, config, model_, optimizer, iter_, model_iter_metric,
                   opt_dirs, log, disk, loaded>>

(***************************************************************************)
(* HyperOpt used on its own: add_previous_results and fit                  *)
(***************************************************************************)
\* previous results as the one mapping of the tests, '<y>_<index>' -> assignment,
\* and as the lists x and y
as_mapping(pairs) == [j \in DOMAIN pairs |-> [key |-> [y |-> pairs[j].y, idx |-> j - 1], x |-> pairs[j].x]]
as_lists(pairs) == [x |-> [j \in DOMAIN pairs |-> pairs[j].x], y |-> [j \in DOMAIN pairs |-> pairs[j].y]]

\* the (assignment, objective) pairs the driver reads out of either form
from_mapping(prev) == [j \in DOMAIN prev |-> [x |-> prev[j].x, y |-> prev[j].key.y]]
from_lists(prev) == [j \in DOMAIN prev.x |-> [x |-> prev.x[j], y |-> prev.y[j]]]

\* HyperOpt("bayes", objective_fn=..., num_iterations=n)
new_optimizer(n) ==
    /\ pc = "idle"
    /\ optimizer = None
    /\ optimizer' = HyperOpt(None, n)
    /\ UNCHANGED <<aside, fits, cv_scores_, models, subclass, val_metric, pc, args, include, pos, metrics, features,
                   iter_metrics, config, model_, iter_, model_iter_metric, opt_dirs, log,
                   disk, loaded, sorted>>

\* optimizer.add_previous_results(prev_xy) or (x=x0, y=y0)
add_previous_results(pairs, form) ==
    /\ pc = "idle"
    /\ optimizer # None
    /\ ~optimizer.running
    /\ optimizer.history = <<>>
    /\ optimizer.prev = <<>>
    /\ pairs # <<>>
    /\ optimizer' = [optimizer EXCEPT !.prev = IF form = "mapping"
                                               THEN from_mapping(as_mapping(pairs))
                                               ELSE from_lists(as_lists(pairs))]
    /\ log' = Append(log, Event("add_previous_results", None, [pairs |-> pairs, form |-> form]))
    /\ UNCHANGED <<aside, fits, cv_scores_, models, subclass, val_metric, pc, args, include, pos, metrics, features,
                   iter_metrics, config, model_, iter_, model_iter_metric, opt_dirs,
                   disk, loaded, sorted>>

seed_backend_as_trials ==
    /\ pc = "idle"
    /\ optimizer # None
    /\ ~optimizer.running
    /\ optimizer.calls = 0
    /\ optimizer' = [optimizer EXCEPT !.running = TRUE, !.history = optimizer.prev,
                                      !.seeded = Len(optimizer.prev),
                                      !.calls = Len(optimizer.prev)]
    /\ UNCHANGED <<aside, fits, cv_scores_, models, subclass, val_metric, pc, args, include, pos, metrics, features,
                   iter_metrics, config, model_, iter_, model_iter_metric, opt_dirs, log,
                   disk, loaded, sorted>>

\* optimizer.fit(), first step: the backend is told the previous results
seed_backend ==
    /\ pc = "idle"
    /\ optimizer # None
    /\ ~optimizer.running
    /\ optimizer.calls = 0
    /\ optimizer' = [optimizer EXCEPT !.running = TRUE, !.history = optimizer.prev,
                                      !.seeded = Len(optimizer.prev)]
    /\ UNCHANGED <<aside, fits, cv_scores_, models, subclass, val_metric, pc, args, include, pos, metrics, features,
                   iter_metrics, config, model_, iter_, model_iter_metric, opt_dirs, log,
                   disk, loaded, sorted>>

\* optimizer.fit(), one new trial: objective_func(**x) returns y
new_trial(x, y) ==
    /\ pc = "idle"
    /\ optimizer # None
    /\ optimizer.running
    /\ optimizer.calls < optimizer.num_iterations
    /\ optimizer' = observe(optimizer, x, y)
    /\ log' = Append(log, Event("objective", None, x))
    /\ UNCHANGED <<aside, fits, cv_scores_, models, subclass, val_metric, pc, args, include, pos, metrics, features,
                   iter_metrics, config, model_, iter_, model_iter_metric, opt_dirs,
                   disk, loaded, sorted>>


(***************************************************************************)
(* Specifications                                                          *)
(***************************************************************************)
\* what a caller may pass as include and as exclude
NameLists(names) == SeqsUpTo(names, MaxNames)
IncludeArgs(names) == {ArgNone} \cup {ArgStr(m) : m \in names} \cup {ArgList(sq) : sq \in NameLists(names)}
ExcludeArgs(names) == {ArgNone} \cup {ArgStr(m) : m \in names} \cup {ArgList(sq) : sq \in NameLists(names)}

A == Name("A")
B == Name("B")
C == Name("C")
Z == Name("Z")

\* Spec: every shape of include and exclude under a dry run, and every run_type and
\* post_optimize, valid or not, on a few include and exclude lists; one assignment and
\* one prediction, every way a build can end, every set of checkpoints
SomeNames == {A, B, WithPrefix(B), Z}
NameCalls ==
    {FitArgs("dry_run", "eval_best", inc, exc, 1) :
        inc \in IncludeArgs(SomeNames), exc \in ExcludeArgs(SomeNames)}
ModeCalls ==
    {FitArgs(rt, po, inc, exc, n) :
        rt \in RunTypes \cup {"optimise"}, po \in PostOptimizePolicies \cup {"best"},
        inc \in {ArgNone, ArgList(<<B, A>>), ArgList(<<B, B>>)},
        exc \in {ArgList(<<>>), ArgStr(B), ArgStr(WithPrefix(C))},
        n \in 1..MaxIter}
OneResult == ResultsOver({Num(1)})
OneAssignment == {[x |-> 1]}

Init == InitWith({"mse"})

Fit == \E a \in NameCalls \cup ModeCalls : fit(a)
DryRun == \E raises \in Raises, train \in OneResult, test \in OneResult : dry_run(raises, train, test)
StartSearch == start_search
Trial == \E x \in OneAssignment, raises \in Raises, r \in OneResult : trial(x, raises, r)
PostOptimize ==
    \E ckpts \in SUBSET Ranks, raises \in Raises, train \in OneResult, test \in OneResult :
        post_optimize(ckpts, raises, train, test)
Persist == persist
FromConfig == from_config

Next == Fit \/ Skip \/ DryRun \/ StartSearch \/ Trial \/ PostOptimize \/ Persist \/ FromConfig

Spec == Init /\ [][Next]_vars


\* SpecRun: the search of one variant and the dry run of one or two, with several
\* assignments and predictions, every way a build can end and every set of checkpoints
RunCalls ==
    {FitArgs("optimize", po, ArgList(<<A>>), ArgList(<<>>), n) :
        po \in PostOptimizePolicies, n \in 1..MaxIter}
    \cup {FitArgs("dry_run", "eval_best", inc, ArgList(<<>>), 1) :
        inc \in {ArgList(<<A>>), ArgList(<<B, A>>)}}
RunResults == ResultsOver({Num(0), NaN, PInf})
TrialResults == ResultsOver({Num(0), Num(1)})
RunAssignments == {[x |-> 1], [lookback |-> 2]}

FitRun == \E a \in RunCalls : fit(a)
DryRunWide == \E raises \in Raises, train \in RunResults, test \in RunResults : dry_run(raises, train, test)
TrialWide == \E x \in RunAssignments, raises \in Raises, r \in TrialResults : trial(x, raises, r)
PostOptimizeWide ==
    \E ckpts \in SUBSET Ranks, raises \in Raises, train \in RunResults, test \in RunResults :
        post_optimize(ckpts, raises, train, test)

NextRun == FitRun \/ DryRunWide \/ StartSearch \/ TrialWide \/ PostOptimizeWide \/ Persist \/ FromConfig

SpecRun == Init /\ [][NextRun]_vars

\* SpecEval: the search of one variant, for every validation metric and every value
EvalCalls == {FitArgs("optimize", po, ArgStr(A), ArgNone, n) : po \in PostOptimizePolicies, n \in 1..MaxIter}
InitEval == InitWith(MetricNames)
FitEval == \E a \in EvalCalls : fit(a)
TrialEval == \E x \in OneAssignment, raises \in Raises, r \in ResultsOver(Vals) : trial(x, raises, r)

NextEval == FitEval \/ StartSearch \/ TrialEval \/ PostOptimize \/ Persist

SpecEval == InitEval /\ [][NextEval]_vars

\* SpecSort: a dry run of all three variants on predictions with and without NaN, then
\* sort_models_by_metric with every cutoff
SortCalls == {FitArgs("dry_run", "eval_best", ArgNone, exc, 1) : exc \in {ArgList(<<>>), ArgStr(C)}}
SortResults == ResultsOver({NaN, Num(0), Num(MaxVal)})
FitSort == \E a \in SortCalls : fit(a)
DryRunSort == \E train \in SortResults, test \in SortResults : dry_run("no", train, test)
SortModels ==
    \E cutoff_val \in {Num(-1), Num(0), None}, cutoff_type \in CutoffTypes,
       ignore_nans \in BOOLEAN, sort_by \in Splits :
        sort_models_by_metric("r2", cutoff_val, cutoff_type, ignore_nans, sort_by)

NextSort == FitSort \/ DryRunSort \/ Persist \/ SortModels

SpecSort == Init /\ [][NextSort]_vars

\* SpecHpo: the driver on its own, as in TestAddPrevResult
HpoPairs == {[x |-> x, y |-> y] : x \in OneAssignment \cup {[x |-> 2]}, y \in {Num(0), Num(1)}}
NewOptimizer == \E n \in 1..MaxIter : new_optimizer(n)
AddPreviousResults ==
    \E pairs \in SeqsUpTo(HpoPairs, MaxPrev), form \in {"mapping", "lists"} :
        add_previous_results(pairs, form)
SeedBackend == seed_backend
NewTrial == \E xy \in HpoPairs : new_trial(xy.x, xy.y)

NextHpo == NewOptimizer \/ AddPreviousResults \/ SeedBackend \/ NewTrial

SpecHpo == Init /\ [][NextHpo]_vars


(***************************************************************************)
(* Claims                                                                  *)
(***************************************************************************)
Prefixed(sq) == {WithPrefix(n) : n \in Elems(sq)}
CallIncluded(a) == IF a.include.kind = "None" THEN Elems(models) ELSE Prefixed(a.include.val)
CallExcluded(a) == Prefixed(a.exclude.val)
NamesKnown(a) == (CallIncluded(a) \cup CallExcluded(a)) \subseteq Elems(models)
ValidModes(a) ==
    a.run_type \in {"dry_run", "optimize"} /\ a.post_optimize \in {"eval_best", "train_best"}
Called == args # None
\* the variants the current fit call has built a model for
BuiltVariants == {WithPrefix(log[j].m.m) : j \in {h \in DOMAIN log : log[h].ev = "build"}}
TrainedVariants == {WithPrefix(log[j].m.m) : j \in {h \in DOMAIN log : log[h].ev = "train"}}
Raised(j) == log[j].ev = "raise"

\* C1: when every include and exclude name of a fit call is a known variant, the
\* variants built and run are the included ones minus the excluded ones: no excluded
\* variant is built, trained or entered in the tables, and when fit returns every
\* other included variant has been run.
C1_NoExcludedVariantRuns ==
    (Called /\ ValidModes(args) /\ NamesKnown(args)) =>
        /\ BuiltVariants \subseteq (CallIncluded(args) \ CallExcluded(args))
        /\ \A m \in CallExcluded(args) : m \notin DOMAIN metrics /\ m \notin DOMAIN features
        /\ pc = "done" => TrainedVariants = CallIncluded(args) \ CallExcluded(args)

\* C2: a fit call with a run_type or post_optimize outside the allowed values, or with an
\* include or exclude name that is no variant, has raised, and has built no model,
\* trained none, made no driver and touched no table.
C2_FailFast ==
    (Called /\ (~ValidModes(args) \/ ~NamesKnown(args))) =>
        /\ pc = "raised"
        /\ log = <<>>
        /\ model_ = None
        /\ optimizer = None
        /\ DOMAIN metrics = {} /\ DOMAIN features = {}
C2_Witness ==
    /\ Called /\ ValidModes(args) /\ pc = "raised"
    /\ CallIncluded(args) \subseteq Elems(models)
    /\ ~(CallExcluded(args) \subseteq Elems(models))

\* C3: once building or training a model has raised in a fit call, that is the last
\* thing the call did: fit has raised, no further model is built, no later variant is
\* started, and nothing was persisted.
C3_RaiseHalts ==
    \A j \in DOMAIN log : Raised(j) =>
        /\ j = Len(log)
        /\ pc = "raised"
        /\ ~disk.written
        /\ log[j].m.m = ShortName(include[pos])
C3_Witness ==
    /\ pc = "raised" /\ log # <<>> /\ Raised(Len(log))
    /\ args.run_type = "optimize"
    /\ pos = 2 /\ pos < Len(include)
    /\ optimizer.calls >= 1

\* the value of the designated validation metric in the trial that ran last
LastTrialMetric == Metrics(model_.pred.validation, val_metric)
LastObjective == optimizer.history[Len(optimizer.history)].y
AfterTrial == pc = "search" /\ optimizer.calls > 0

\* C4: every objective a search trial hands to the driver is finite; a trial whose
\* validation metric is NaN or infinite hands over 9999, and fit raises only when a
\* build or a training raised.
C4_FiniteObjective ==
    /\ (optimizer # None) => \A j \in DOMAIN optimizer.history : isfinite(optimizer.history[j].y)
    /\ (AfterTrial /\ ~isfinite(LastTrialMetric)) => LastObjective = Num(9999)
    /\ (pc = "raised" /\ log # <<>>) => Raised(Len(log))
C4_Witness ==
    /\ AfterTrial
    /\ Len(optimizer.history) >= 2
    /\ optimizer.history[1].y = Num(9999)
    /\ LastTrialMetric.k = "num"

\* the metrics for which a larger value is the better one: those of _evaluate, and
\* corr_coeff (plot_improvement, line 648), precision and recall
LargerIsBetter ==
    {"r2", "nse", "kge", "r2_mod", "r2_adj", "r2_score", "accuracy", "f1_score",
     "corr_coeff", "precision", "recall"}

\* C5: the objective of a trial, when finite, is 1 - m for a validation metric for which
\* larger is better and m for every other one, m being the value of the metric.
C5_Objective ==
    AfterTrial =>
        LET expected == IF val_metric \in LargerIsBetter
                        THEN OneMinus(LastTrialMetric) ELSE LastTrialMetric
        IN  isfinite(expected) => LastObjective = expected

\* C6: after fit returned, every variant it ran has an entry in metrics and in features,
\* and the entry has a train and a test part with a value for every monitor metric.
C6_EveryVariantHasResults ==
    pc = "done" =>
        \A m \in TrainedVariants :
            /\ m \in DOMAIN metrics
            /\ m \in DOMAIN features
            /\ \A sp \in {"train", "test"} : DOMAIN metrics[m][sp] = Elems(Monitor.regression)

\* the state after eval_best found no checkpoint in the search directory of the variant
EvalBestWithoutCheckpoint ==
    /\ pc \in {"loop", "done"}
    /\ args.run_type = "optimize" /\ args.post_optimize = "eval_best"
    /\ optimizer # None /\ ~optimizer.running
    /\ optimizer.opt_path \in DOMAIN opt_dirs
    /\ opt_dirs[optimizer.opt_path] = {}
IsBestAssignment(x) ==
    \E j \in DOMAIN optimizer.history :
        /\ optimizer.history[j].x = x
        /\ \A h \in DOMAIN optimizer.history : ~Lt(optimizer.history[h].y, optimizer.history[j].y)

\* C7: under eval_best with no checkpoint in the search directory, the final results of
\* the variant are those of a fresh model built with the best assignment of the search,
\* trained and then predicted, and no checkpoint was reloaded.
C7_FallsBackToTrainBest ==
    EvalBestWithoutCheckpoint =>
        /\ model_.origin = "built" /\ model_.trained
        /\ model_.title = Title(optimizer.opt_path, TRUE)
        /\ IsBestAssignment(model_.kws.paras)
        /\ log[Len(log) - (IF pc = "done" THEN 1 ELSE 0)] = Event("train", model_.title, model_.kws)
        /\ metrics[WithPrefix(optimizer.opt_path)] =
               [train |-> [m \in Elems(Monitor.regression) |-> model_.pred.training.v],
                test |-> [m \in Elems(Monitor.regression) |-> model_.pred.test.v]]
        /\ \A j \in DOMAIN log : log[j].ev # "reload"
C7_Witness ==
    /\ EvalBestWithoutCheckpoint
    /\ Len(optimizer.history) >= 2
    /\ model_.kws.paras # optimizer.history[Len(optimizer.history)].x
    /\ model_.kws.paras = optimizer.history[1].x

\* C8: a reload with from_config of what a completed fit wrote gives tables with the
\* content of the tables in memory at the end of that fit, after the conversion to JSON,
\* and builds, trains and evaluates nothing.
C8_ReloadReproducesTables ==
    [][(loaded' # loaded) =>
            /\ pc = "done"
            /\ loaded'.metrics = map_metrics("jsonize", metrics)
            /\ loaded'.features = map_features("jsonize", features)
            /\ loaded'.config.eval_models = config.eval_models
            /\ log' = log /\ model_' = model_ /\ optimizer' = optimizer
            /\ metrics' = metrics /\ features' = features /\ disk' = disk]_vars
C8_Witness ==
    /\ loaded.loaded /\ pc = "done"
    /\ loaded.features # features
    /\ \E m \in DOMAIN loaded.metrics : loaded.metrics[m].test["r2"] = NaN
    /\ \E m \in DOMAIN loaded.metrics : loaded.metrics[m].train["r2"] = Num(0)
    /\ DOMAIN loaded.features = DOMAIN loaded.metrics

\* the calls of the objective function, and the pairs handed to add_previous_results
NumObjective == Cardinality({j \in DOMAIN log : log[j].ev = "objective"})
Supplied ==
    IF \E j \in DOMAIN log : log[j].ev = "add_previous_results"
    THEN log[CHOOSE j \in DOMAIN log : log[j].ev = "add_previous_results"].what.pairs
    ELSE <<>>
Standalone == pc = "idle" /\ optimizer # None /\ optimizer.running

\* C9: with k previous pairs added before fit and a budget of N, the history starts
\* with the k pairs before any new trial, the objective function is called for the new
\* trials only, at most N times, and after the N-th the history has k + N entries;
\* the same for the mapping and for the x and y lists.
C9_SeededNotEvaluated ==
    Standalone =>
        /\ Len(optimizer.history) = Len(Supplied) + NumObjective
        /\ \A j \in DOMAIN Supplied : optimizer.history[j] = Supplied[j]
        /\ NumObjective = optimizer.calls
        /\ NumObjective <= optimizer.num_iterations
        /\ \A j \in DOMAIN log : log[j].ev = "objective" =>
               /\ \A h \in DOMAIN log : log[h].ev = "add_previous_results" => h < j
               /\ log[j].what = optimizer.history[Len(Supplied) + j - (Len(log) - NumObjective)].x
        /\ optimizer.calls = optimizer.num_iterations =>
               Len(optimizer.history) = Len(Supplied) + optimizer.num_iterations
C9_Witness ==
    /\ Standalone
    /\ Len(Supplied) = MaxPrev
    /\ optimizer.calls = optimizer.num_iterations
    /\ optimizer.num_iterations = MaxIter
    /\ Len(optimizer.history) = MaxPrev + MaxIter
    /\ \E j \in DOMAIN log : log[j].ev = "add_previous_results" /\ log[j].what.form = "lists"
C9_WitnessMapping ==
    /\ Standalone
    /\ Len(Supplied) = MaxPrev
    /\ optimizer.calls = optimizer.num_iterations
    /\ \E j \in DOMAIN log : log[j].ev = "add_previous_results" /\ log[j].what.form = "mapping"

\* the call of sort_models_by_metric that returned last used the cutoff 'greater'
SortedGreater == sorted # None /\ ~sorted.raised /\ sorted.cutoff_type = "greater"
Returned == {sorted.df[j].model : j \in DOMAIN sorted.df}
SortValue(m) == metrics[m][sorted.sort_by][sorted.metric_name]
HasNaN(m) == \E sp \in Splits : metrics[m][sp][sorted.metric_name].k = "nan"
Descending ==
    \A j, h \in DOMAIN sorted.df :
        j < h => ~Gt(sorted.df[h][sorted.sort_by], sorted.df[j][sorted.sort_by])

\* C10: with cutoff_type 'greater' and cutoff value c, sort_models_by_metric returns
\* exactly the variants whose metric on the sort_by split is strictly greater than c,
\* in descending order of that metric.
C10_GreaterReturnsExactly ==
    SortedGreater =>
        /\ Returned = {m \in DOMAIN metrics : Gt(SortValue(m), sorted.cutoff_val)}
        /\ Descending

\* C10, amended: with cutoff_type 'greater' and cutoff value c, sort_models_by_metric
\* returns exactly the variants whose metric on the sort_by split is strictly greater
\* than c, less, when ignore_nans is true, those whose train or test value of the metric
\* is NaN, each once, in descending order of that metric.
C10_GreaterReturnsExactlyWithoutNaN ==
    SortedGreater =>
        /\ Returned = {m \in DOMAIN metrics :
                          /\ Gt(SortValue(m), sorted.cutoff_val)
                          /\ sorted.ignore_nans => ~HasNaN(m)}
        /\ Len(sorted.df) = Cardinality(Returned)
        /\ \A j \in DOMAIN sorted.df : sorted.df[j] = frame_row(sorted.df[j].model, sorted.metric_name)
        /\ Descending
C10_Witness ==
    /\ SortedGreater
    /\ sorted.ignore_nans
    /\ Len(sorted.df) = 2
    /\ Gt(sorted.df[1][sorted.sort_by], sorted.df[2][sorted.sort_by])
    /\ \E m \in DOMAIN metrics : Gt(SortValue(m), sorted.cutoff_val) /\ HasNaN(m)

\* v == c on floats: false when either is NaN
FloatEq(v, c) == v.k # "nan" /\ c.k # "nan" /\ v.k = c.k /\ v.n = c.n
\* what each cutoff type says about a value v and the cutoff value c
Compares(cutoff_type, v, c) ==
    CASE cutoff_type = "greater" -> Gt(v, c)
      [] cutoff_type = "greater_equal" -> Gt(v, c) \/ FloatEq(v, c)
      [] cutoff_type = "less" -> Lt(v, c)
      [] cutoff_type = "less_equal" -> Lt(v, c) \/ FloatEq(v, c)

\* C11: for each of the four cutoff types sort_models_by_metric keeps exactly the
\* variants whose metric compares to the cutoff value as the type says; a variant
\* whose metric equals the cutoff value is kept by the two '_equal' types and dropped
\* by the two strict ones.  (Stated for calls that drop no NaN rows.)
C11_CutoffTypes ==
    (sorted # None /\ ~sorted.raised /\ sorted.cutoff_type # "None" /\ ~sorted.ignore_nans) =>
        Returned = {m \in DOMAIN metrics : Compares(sorted.cutoff_type, SortValue(m), sorted.cutoff_val)}

(***************************************************************************)
(* sort_array (lines 1487-1494)                                            *)
(***************************************************************************)
MaxLen == 3        \* longest trial history handed to sort_array

\* A Python float of a trial history: the number n, plus, when r = 1, a remainder that
\* double precision holds and single precision does not (0.1 is such a number)
Double(n, r) == [t |-> "float", k |-> "num", n |-> n, r |-> r]
Doubles == {Double(n, r) : n \in 0..MaxVal, r \in 0..1}

\* np.array(array, dtype=np.float32) on one element: rounded to the nearest single
float32(v) == [v EXCEPT !.t = "np.float32", !.r = 0]

\* v < w and v == w on these numbers, whatever type carries them
Below(v, w) == v.n < w.n \/ (v.n = w.n /\ v.r < w.r)
SameNumber(v, w) == v.n = w.n /\ v.r = w.r

\* np.min of a non-empty array
np_min(results) ==
    results[CHOOSE j \in DOMAIN results : \A h \in DOMAIN results : ~Below(results[h], results[j])]

running_max(a) ==
    LET results == [j \in DOMAIN a |-> float32(a[j])]
    IN  [i \in 1..Len(results) |->
            results[CHOOSE j \in 1..i : \A h \in 1..i : ~Below(results[j], results[h])]]

\* sort_array(array): [np.min(results[:i]) for i in range(1, len(results) + 1)]
sort_array(a) ==
    LET results == [j \in DOMAIN a |-> float32(a[j])]
    IN  [i \in 1..Len(results) |-> np_min(SubSeq(results, 1, i))]

\* SpecConv: sort_array on every trial history of up to MaxLen floats
InitConv ==
    /\ __init__({"mse"}, NoCases)
    /\ array \in SeqsUpTo(Doubles, MaxLen)
    /\ convergence = None
    /\ para = None
    /\ raum = None
    /\ InitExtra

SortArray ==
    /\ convergence = None
    /\ convergence' = [curve |-> sort_array(array)]
    /\ UNCHANGED <<extra, array, para, raum, fits, cv_scores_, models, subclass, val_metric, pc, args,
                   include, pos, metrics, features, iter_metrics, config, model_, optimizer,
                   iter_, model_iter_metric, opt_dirs, log, disk, loaded, sorted>>

NextConv == SortArray

SpecConv == InitConv /\ [][NextConv]_vars

\* the minimum of a[0..i], as a number
MinUpTo(a, i) == np_min(SubSeq(a, 1, i))
Converged == convergence # None

\* C12: the curve sort_array computes from a trial history a has the length of a and its
\* i-th element equals the minimum of a[0..i]; hence it never increases, starts at a[0]
\* and ends at the minimum of a.
C12_RunningMinimum ==
    Converged =>
        /\ Len(convergence.curve) = Len(array)
        /\ \A i \in DOMAIN convergence.curve : SameNumber(convergence.curve[i], MinUpTo(array, i))

\* C12, amended: the curve has the length of a and its i-th element equals the minimum
\* of a[0..i] rounded to single precision (np.float32); it never increases, starts at
\* a[0] rounded to single precision and ends at the rounded minimum of a.
C12_RunningMinimumInSinglePrecision ==
    Converged =>
        /\ Len(convergence.curve) = Len(array)
        /\ \A i \in DOMAIN convergence.curve : convergence.curve[i] = float32(MinUpTo(array, i))
        /\ \A i, j \in DOMAIN convergence.curve : i < j => ~Below(convergence.curve[i], convergence.curve[j])
        /\ array # <<>> =>
               /\ convergence.curve[1] = float32(array[1])
               /\ convergence.curve[Len(array)] = float32(MinUpTo(array, Len(array)))
C12_Witness ==
    /\ Converged
    /\ Len(array) = MaxLen
    /\ Below(array[3], array[1]) /\ Below(array[1], array[2])
    /\ array[3].r = 1
    /\ Below(convergence.curve[3], convergence.curve[1])

(***************************************************************************)
(* SpecCv: fit with and without cross_validate, one or two variants, both  *)
(* run types and policies, models whose cross-validation score and         *)
(* held-out metric differ                                                  *)
(***************************************************************************)
CvCalls ==
    {FitArgs(rt, po, ArgList(<<A>>), ArgList(<<>>), n) :
        rt \in RunTypes, po \in PostOptimizePolicies, n \in 1..MaxIter}
    \cup {WithCrossValidate(FitArgs(rt, po, ArgList(<<A>>), ArgList(<<>>), n)) :
        rt \in RunTypes, po \in PostOptimizePolicies, n \in 1..MaxIter}
    \cup {WithCrossValidate(FitArgs("dry_run", "eval_best", ArgList(<<B, A>>), ArgStr(B), 1)),
          WithCrossValidate(FitArgs("dry_run", "eval_best", ArgList(<<B, A>>), ArgList(<<>>), 1))}
CvResults == {ResultCv(v, Num(1), cv) : v \in {Num(0), Num(1)}, cv \in {Num(0), Num(1)}}

FitCv == \E a \in CvCalls : fit(a)
DryRunCv == \E raises \in Raises, train \in CvResults, test \in OneResult : dry_run(raises, train, test)
TrialCv == \E x \in RunAssignments, raises \in Raises, r \in CvResults : trial(x, raises, r)
PostOptimizeCv ==
    \E ckpts \in SUBSET Ranks, raises \in Raises, train \in CvResults, test \in OneResult :
        post_optimize(ckpts, raises, train, test)

NextCv == FitCv \/ DryRunCv \/ StartSearch \/ TrialCv \/ PostOptimizeCv \/ Persist

SpecCv == Init /\ [][NextCv]_vars

\* C13: in a search with cross_validate the objective a trial hands to the driver is
\* the cross-validation score of the trial's model, not its held-out evaluation.
C13_ObjectiveIsCrossValScore ==
    (AfterTrial /\ args.cross_validate) =>
        LastObjective = objective([v |-> model_.cross_val], val_metric)

\* the variants the current fit call has run, under the names the tables use
Executed == {WithPrefix(m) : m \in TrainedVariants}
\* what the last raise of the current fit call came from
LastRaise == log[Len(log)].what.in

\* C14: after fit with cross_validate returns, cv_scores_ has exactly one entry per
\* executed variant, the cross-validation scores of that variant's model, for a dry run
\* and for a search under both policies: fit returns unless a build or a training
\* raised; after fit without cross_validate cv_scores_ is empty.
C14_CvScoresPerVariant ==
    /\ (pc = "done" /\ args.cross_validate) =>
           /\ DOMAIN cv_scores_ = Executed
           /\ \A m \in DOMAIN cv_scores_ : cv_scores_[m] \in {Num(0), Num(1)}
    /\ (pc = "done" /\ ~args.cross_validate) => cv_scores_ = EmptyDict
    /\ (pc = "raised" /\ log # <<>>) => LastRaise \in {"build", "fit"}

\* where a variant stands in the resolved variant set
Declared(m) == CHOOSE i \in DOMAIN models : models[i] = WithPrefix(m)
Builds == {j \in DOMAIN log : log[j].ev = "build"}

\* C15: fit runs the variants in declaration order: of two models it builds, the one
\* built first belongs to a variant that does not come later in the resolved variant
\* set, whatever include list the caller passed.
C15_DeclarationOrder ==
    \A j, h \in Builds : j < h => Declared(log[j].m.m) <= Declared(log[h].m.m)

(***************************************************************************)
(* SpecRefit: several fit calls on one experiment, one after another       *)
(***************************************************************************)
MaxFits == 2       \* most fit calls made on one experiment

\* fit returns to its caller, or its exception reaches the caller, who may call again
fit_returns ==
    /\ pc \in {"done", "raised"}
    /\ fits < MaxFits
    /\ pc' = "idle"
    /\ UNCHANGED <<aside, fits, cv_scores_, models, subclass, val_metric, args, include, pos,
                   metrics, features, iter_metrics, config, model_, optimizer, iter_,
                   model_iter_metric, opt_dirs, log, disk, loaded, sorted>>

RefitCalls ==
    {FitArgs("dry_run", "eval_best", ArgList(inc), ArgList(<<>>), 1) : inc \in {<<A>>, <<B>>}}
    \cup {WithCrossValidate(FitArgs("dry_run", "eval_best", ArgList(<<B, A>>), ArgList(<<>>), 1)),
          WithCrossValidate(FitArgs("optimize", "train_best", ArgList(<<B>>), ArgList(<<>>), 1)),
          FitArgs("optimize", "eval_best", ArgList(<<A>>), ArgList(<<>>), 1),
          FitArgs("optimise", "eval_best", ArgList(<<A>>), ArgList(<<>>), 1),
          FitArgs("dry_run", "eval_best", ArgList(<<Z>>), ArgList(<<>>), 1)}

FitAgain == \E a \in RefitCalls : fit(a)
FitReturns == fit_returns

NextRefit == FitAgain \/ DryRun \/ StartSearch \/ Trial \/ PostOptimize \/ Persist \/ FitReturns

SpecRefit == Init /\ [][NextRefit]_vars

\* the variants the last fit call that passed validation has built so far
Ran == {WithPrefix(log[j].m.m) : j \in Builds}
Tables == <<metrics, features, iter_metrics, cv_scores_, config.eval_models,
            config.optimized_models>>
BeforeFirstVariant == pc = "loop" /\ pos = 1
\* some fit call has passed validation: the log starts anew there and the loop follows
HasReset == log # <<>> \/ pc \in {"loop", "search"}

\* C16: every fit call that passes validation empties metrics, features, iter_metrics,
\* cv_scores_ and the recorded eval and optimized paths before its first variant runs,
\* so after any sequence of fit calls the tables hold entries of variants of the last
\* such call only.
C16_TablesOfLastCall ==
    HasReset =>
        \A t \in DOMAIN Tables :
            /\ BeforeFirstVariant => Tables[t] = EmptyDict
            /\ DOMAIN Tables[t] \subseteq Ran

\* a second call has run its variants after a first call saved a variant it does not run
C16_Witness ==
    /\ fits = MaxFits
    /\ pc = "loop" /\ pos > Len(include)
    /\ metrics # EmptyDict
    /\ IF disk.written
       THEN ~(DOMAIN disk.config.eval_models \subseteq DOMAIN config.eval_models)
       ELSE FALSE

(***************************************************************************)
(* Parameters of the search space (hyperopt/_space.py)                     *)
(*                                                                         *)
(* A number is the fraction n/d in lowest terms, carried by the type t;    *)
(* np.linspace is taken as exact on these fractions.  A grid is a          *)
(* container (list or ndarray) of numbers.                                 *)
(***************************************************************************)
MaxHigh == 3       \* bounds of a parameter are integers in -1..MaxHigh
MaxSamples == 3    \* largest num_samples a caller passes
MaxStep == 2       \* largest step a caller passes

Abs(n) == IF n < 0 THEN -n ELSE n
RECURSIVE gcd(_, _)
gcd(a, b) == IF b = 0 THEN a ELSE gcd(b, a % b)
Number(n, d, t) == [n |-> n \div gcd(Abs(n), d), t |-> t, d |-> d \div gcd(Abs(n), d)]
PyInt(n) == Number(n, 1, "int")
Str(s) == [s |-> s]
\* v == w and v < w on numbers, whatever type carries them
Equal(v, w) == v.n = w.n /\ v.d = w.d
Less(v, w) == v.n * w.d < w.n * v.d

list(v) == [t |-> "list", v |-> v]
ndarray(v, dtype) == [t |-> "ndarray", v |-> [j \in DOMAIN v |-> [v[j] EXCEPT !.t = dtype]]]
\* np.array(x) on a list of Python ints
np_array(x) == ndarray(x.v, "np.int64")

\* np.min(grid), np.max(grid) on a non-empty grid
amin(x) == [x.v[CHOOSE j \in DOMAIN x.v : \A h \in DOMAIN x.v : ~Less(x.v[h], x.v[j])]
               EXCEPT !.t = "np.int64"]
amax(x) == [x.v[CHOOSE j \in DOMAIN x.v : \A h \in DOMAIN x.v : ~Less(x.v[j], x.v[h])]
               EXCEPT !.t = "np.int64"]

\* `if self.num_samples:` and `elif self.step:`
truthy(x) == IF x = None THEN FALSE ELSE x.n # 0

\* np.linspace(start, stop, num): num evenly spaced points, both ends included
linspace_exclusive(start, stop, num) ==
    [i \in 1..(num - 1) |-> Number(start * num + (i - 1) * (stop - start), num, "np.float64")]
linspace(start, stop, num) ==
    [i \in 1..num |->
        IF num = 1 THEN Number(start, 1, "np.float64")
        ELSE Number(start * (num - 1) + (i - 1) * (stop - start), num - 1, "np.float64")]

\* np.arange(start, stop, step) for a positive integer step: ceil((stop - start) / step)
\* values from start on
arange_closed(start, stop, step) ==
    [i \in 1..(IF stop >= start THEN (stop - start) \div step + 1 ELSE 0) |->
        Number(start + (i - 1) * step, 1, "np.int64")]
arange(start, stop, step) ==
    [i \in 1..(IF stop > start THEN (stop - start + step - 1) \div step ELSE 0) |->
        Number(start + (i - 1) * step, 1, "np.int64")]

\* the cast of np.linspace(..., dtype=np.int32): towards minus infinity in numpy from
\* 1.20 on, towards zero before
Casts == {"floor", "trunc"}
int32(v, cast) ==
    IF cast = "floor" \/ v.n >= 0 THEN Number(v.n \div v.d, 1, "np.int32")
    ELSE Number(-((-v.n) \div v.d), 1, "np.int32")
\* int(val)
int(v) == [v EXCEPT !.t = "int"]

\* Real.grid, the setter (lines 115-125)
Real_grid_ignoring_x(low, high, num_samples, step, x) ==
    IF truthy(num_samples) THEN ndarray(linspace(low.n, high.n, num_samples.n), "np.float64")
    ELSE IF x = None THEN None ELSE np_array(x)
Real_grid(low, high, num_samples, step, x) ==
    IF x = None
    THEN IF truthy(num_samples)
         THEN ndarray(linspace(low.n, high.n, num_samples.n), "np.float64")
         ELSE IF truthy(step)
              THEN ndarray(arange(low.n, high.n, step.n), "np.int64")
              ELSE None
    ELSE np_array(x)

\* Integer.grid, the setter (lines 239-252)
Integer_grid(low, high, num_samples, step, x, cast) ==
    IF x = None
    THEN IF truthy(num_samples)
         THEN list([j \in 1..num_samples.n |->
                      int(int32(linspace(low.n, high.n, num_samples.n)[j], cast))])
         ELSE IF truthy(step)
              THEN list([j \in DOMAIN arange(low.n, high.n, step.n) |->
                           int(arange(low.n, high.n, step.n)[j])])
              ELSE None
    ELSE np_array(x)

\* check_prior (lines 352-357)
check_prior(prior, skopt_version) ==
    IF prior = Str("log") /\ skopt_version = "0.9.0" THEN Str("log-uniform") ELSE prior

\* an exception leaves the constructor
Raise(what) == [raised |-> what]
Constructed(p) == "kind" \in DOMAIN p

\* Real.__init__ and Integer.__init__: the bounds from the grid when low is None, then
\* the base class keeps low, high and prior, then the grid setter
bounds_from_grid(low) == low = None
Real__init__(low, high, num_samples, step, grid, prior, skopt_version) ==
    IF bounds_from_grid(low) /\ grid = None THEN Raise("AssertionError")
    ELSE IF bounds_from_grid(low) /\ grid.v = <<>> THEN Raise("ValueError")
    ELSE LET lo == IF bounds_from_grid(low) THEN amin(grid) ELSE low
             hi == IF bounds_from_grid(low) THEN amax(grid) ELSE high
         IN  [kind |-> "Real", low |-> lo, high |-> hi, num_samples |-> num_samples,
              step |-> step, prior |-> check_prior(prior, skopt_version),
              _grid |-> Real_grid(lo, hi, num_samples, step, grid)]

Integer__init__(low, high, num_samples, step, grid, prior, skopt_version, cast) ==
    IF bounds_from_grid(low) /\ grid = None THEN Raise("AssertionError")
    ELSE IF bounds_from_grid(low) /\ grid.v = <<>> THEN Raise("ValueError")
    ELSE LET lo == IF bounds_from_grid(low) THEN amin(grid) ELSE low
             hi == IF bounds_from_grid(low) THEN amax(grid) ELSE high
         IN  [kind |-> "Integer", low |-> lo, high |-> hi, num_samples |-> num_samples,
              step |-> step, prior |-> check_prior(prior, skopt_version),
              _grid |-> Integer_grid(lo, hi, num_samples, step, grid, cast)]

\* Categorical has no constructor of its own: the base class keeps the categories as a
\* tuple and the prior
Categorical__init__(categories) ==
    [kind |-> "Categorical", categories |-> [t |-> "tuple", v |-> categories], prior |-> None]

\* the property grid of the three classes
grid(p) == IF p.kind = "Categorical" THEN p.categories ELSE p._grid

\* Jsonize(v)(): numpy scalars become Python numbers, arrays and tuples become lists
python(v) ==
    [v EXCEPT !.t = IF v.t \in {"np.int32", "np.int64"} THEN "int"
                    ELSE IF v.t = "np.float64" THEN "float" ELSE @]
Jsonize(v) ==
    IF "v" \in DOMAIN v THEN list([j \in DOMAIN v.v |-> IF "n" \in DOMAIN v.v[j]
                                                        THEN python(v.v[j]) ELSE v.v[j]])
    ELSE IF "n" \in DOMAIN v THEN python(v)
    ELSE v

\* serialize of the three classes: the attributes through Jsonize, then the type tag
type_tag(p) == IF p.kind = "Real" THEN "Real" ELSE "Integer"
serialize(p) ==
    IF p.kind = "Categorical"
    THEN [categories |-> Jsonize(p.categories), prior |-> Jsonize(p.prior),
          type |-> Str(type_tag(p))]
    ELSE [low |-> Jsonize(p.low), high |-> Jsonize(p.high),
          num_samples |-> Jsonize(p.num_samples), step |-> Jsonize(p.step),
          prior |-> Jsonize(p.prior), _grid |-> Jsonize(p._grid), type |-> Str(type_tag(p))]

\* SpecSpace: one parameter is constructed from every combination of arguments, then
\* serialized
BoundArgs ==
    {<<None, None>>}
    \cup {<<PyInt(b[1]), PyInt(b[2])>> :
            b \in {c \in (-1..MaxHigh) \X (-1..MaxHigh) : c[1] < c[2]}}
SampleArgs == {None} \cup {PyInt(k) : k \in 0..MaxSamples}
StepArgs == {None} \cup {PyInt(s) : s \in 1..MaxStep}
GridArgs == {None} \cup {list(g) : g \in SeqsUpTo({PyInt(v) : v \in 0..MaxVal}, MaxLen)}
PriorArgs == {Str("uniform"), Str("log")}
SkoptVersions == {"0.9.0", "0.8.1"}
CategoryArgs == SeqsUpTo({Str("relu"), Str("tanh")}, MaxLen) \ {<<>>}

Call(cls, b, num_samples, step, x, prior) ==
    [cls |-> cls, low |-> b[1], high |-> b[2], num_samples |-> num_samples, step |-> step,
     grid |-> x, prior |-> prior]

new(self, call) ==
    /\ para' = [self |-> self, call |-> call]
    /\ UNCHANGED <<extra, array, convergence, raum, fits, cv_scores_, models, subclass, val_metric,
                   pc, args, include, pos, metrics, features, iter_metrics, config, model_,
                   optimizer, iter_, model_iter_metric, opt_dirs, log, disk, loaded, sorted>>

NewReal ==
    /\ para = None
    /\ \E b \in BoundArgs, k \in SampleArgs, s \in StepArgs, x \in GridArgs, prior \in PriorArgs,
          version \in SkoptVersions :
           new(Real__init__(b[1], b[2], k, s, x, prior, version),
               Call("Real", b, k, s, x, prior))

NewInteger ==
    /\ para = None
    /\ \E b \in BoundArgs, k \in SampleArgs, s \in StepArgs, x \in GridArgs, prior \in PriorArgs,
          version \in SkoptVersions, cast \in Casts :
           new(Integer__init__(b[1], b[2], k, s, x, prior, version, cast),
               Call("Integer", b, k, s, x, prior))

NewCategorical ==
    /\ para = None
    /\ \E categories \in CategoryArgs :
           new(Categorical__init__(categories),
               [cls |-> "Categorical", categories |-> categories])

Serialize ==
    /\ para # None
    /\ Constructed(para.self)
    /\ raum = None
    /\ raum' = serialize(para.self)
    /\ UNCHANGED <<extra, array, convergence, para, fits, cv_scores_, models, subclass, val_metric,
                   pc, args, include, pos, metrics, features, iter_metrics, config, model_,
                   optimizer, iter_, model_iter_metric, opt_dirs, log, disk, loaded, sorted>>

NextSpace == NewReal \/ NewInteger \/ NewCategorical \/ Serialize

SpecSpace == Init /\ [][NextSpace]_vars

\* a Real or an Integer has been constructed from a call without an explicit grid
Numeric == para # None /\ para.call.cls \in {"Real", "Integer"}
NoGrid == Numeric /\ para.call.grid = None /\ para.call.low # None
WithSamples == NoGrid /\ para.call.num_samples # None /\ para.call.num_samples.n >= 1

\* C17: a Real or an Integer constructed with low, high and num_samples = k >= 1 and
\* without an explicit grid has a grid of exactly k elements.
C17_GridHasNumSamples ==
    WithSamples =>
        /\ Constructed(para.self)
        /\ Len(grid(para.self).v) = para.call.num_samples.n

C17_Witness ==
    /\ WithSamples
    /\ para.call.cls = "Integer"
    /\ para.call.step # None
    /\ Len(grid(para.self).v) = MaxSamples
    /\ grid(para.self).v[2].n # grid(para.self).v[1].n

WithStep == NoGrid /\ para.call.num_samples = None /\ para.call.step # None
\* how many of low, low + s, low + 2s, ... lie strictly below high
CountBelow(low, s, high) == Cardinality({i \in 0..(high - low) : low + i * s < high})

WithGrid == Numeric /\ para.call.grid # None
GridValues(g) == [j \in DOMAIN g |-> [n |-> g[j].n, d |-> g[j].d]]

\* C19: a Real or an Integer constructed with an explicit grid returns that grid
\* verbatim (the same values in the same order) whatever num_samples and step are, and
\* when no bounds are given its low and high are the minimum and the maximum of the grid.
C19_ExplicitGridVerbatim ==
    (WithGrid /\ Constructed(para.self)) =>
        /\ GridValues(grid(para.self).v) = GridValues(para.call.grid.v)
        /\ para.call.low = None =>
               /\ \A j \in DOMAIN para.call.grid.v :
                      /\ ~Less(para.call.grid.v[j], para.self.low)
                      /\ ~Less(para.self.high, para.call.grid.v[j])
               /\ \E j \in DOMAIN para.call.grid.v : Equal(para.call.grid.v[j], para.self.low)
               /\ \E j \in DOMAIN para.call.grid.v : Equal(para.call.grid.v[j], para.self.high)

\* an unsorted grid given without bounds, together with num_samples and step
C19_Witness ==
    /\ WithGrid
    /\ Constructed(para.self)
    /\ para.call.low = None
    /\ para.call.num_samples # None /\ para.call.num_samples.n >= 1
    /\ para.call.step # None
    /\ Len(para.call.grid.v) = MaxLen
    /\ Less(para.call.grid.v[2], para.call.grid.v[1])
    /\ Less(para.call.grid.v[2], para.call.grid.v[3])

Serialized == para # None /\ raum # None
\* the values a dictionary of plain data may hold: None, strings, Python numbers and
\* lists of them
PlainNumber(v) == v.t \in {"int", "float"}
PlainData(v) ==
    IF "v" \in DOMAIN v
    THEN /\ v.t = "list"
         /\ \A j \in DOMAIN v.v : "n" \in DOMAIN v.v[j] => PlainNumber(v.v[j])
    ELSE "n" \in DOMAIN v => PlainNumber(v)

\* C20: serialize() of a Real, an Integer or a Categorical returns a dictionary of plain
\* data whose type tag names the parameter's own kind (from which a parameter of the
\* same kind can be reconstructed).
C20_SerializeNamesOwnKind ==
    Serialized =>
        /\ \A k \in DOMAIN raum : PlainData(raum[k])
        /\ raum.type = Str(para.self.kind)

(***************************************************************************)
(* Renderings of a Real or an Integer for the backends                     *)
(* (hyperopt/_space.py, lines 127-157 and 254-278)                         *)
(***************************************************************************)
\* the priors as_hp of Real accepts besides 'log-uniform'
HpPriors == {Str(s) : s \in {"uniform", "loguniform", "normal", "lognormal", "quniform",
                             "qloguniform", "qnormal", "qlognormal"}}
\* what a backend is handed: the function or distribution, the bounds, the scale
Rendering(fn, p, is_log) == [fn |-> fn, low |-> p.low, high |-> p.high, log |-> is_log]

as_hp(p) ==
    IF p.kind = "Integer" THEN Rendering("hp.randint", p, FALSE)
    ELSE IF p.prior = Str("log-uniform") THEN Rendering("hp.loguniform", p, TRUE)
    ELSE IF p.prior \in HpPriors
         THEN Rendering("hp", p, p.prior \in {Str("loguniform"), Str("qloguniform")})
         ELSE Raise("AssertionError")

\* suggest: log = True only when self.prior == 'log'
suggest(p) ==
    Rendering(IF p.kind = "Integer" THEN "suggest_int" ELSE "suggest_float", p,
              p.prior = Str("log"))

to_optuna(p) ==
    IF p.prior # Str("log")
    THEN Rendering(IF p.kind = "Integer" THEN "IntUniformDistribution"
                   ELSE "UniformDistribution", p, FALSE)
    ELSE Rendering(IF p.kind = "Integer" THEN "IntLogUniformDistribution"
                   ELSE "LogUniformDistribution", p, TRUE)

Render ==
    /\ para # None
    /\ rendered = None
    /\ Constructed(para.self)
    /\ para.self.kind \in {"Real", "Integer"}
    /\ rendered' = [as_hp |-> as_hp(para.self), suggest |-> suggest(para.self),
                    to_optuna |-> to_optuna(para.self)]
    /\ UNCHANGED <<later, monitor_arg, cases, array, convergence, para, raum, fits, cv_scores_, models, subclass,
                   val_metric, pc, args, include, pos, metrics, features, iter_metrics,
                   config, model_, optimizer, iter_, model_iter_metric, opt_dirs, log, disk,
                   loaded, sorted>>

NextRender == NewReal \/ NewInteger \/ Render

SpecRender == Init /\ [][NextRender]_vars

LogScale(r) ==
    IF "raised" \in DOMAIN r THEN FALSE
    ELSE r.log /\ r.low = para.self.low /\ r.high = para.self.high

\* C21: for a Real or an Integer declared with a log prior (and positive bounds), as_hp, suggest and
\* to_optuna of the one parameter object all sample on a log scale over the same low
\* and high, and none of them raises or falls back to linear sampling.
C21_LogPriorKeptByEveryBackend ==
    (rendered # None /\ para.call.prior = Str("log") /\ para.self.low.n >= 1) =>
        /\ LogScale(rendered.as_hp)
        /\ LogScale(rendered.suggest)
        /\ LogScale(rendered.to_optuna)

(***************************************************************************)
(* SpecMonitor: experiments constructed with and without a monitor list    *)
(***************************************************************************)
MonitorArgs == {None, [v |-> <<"r2">>], [v |-> <<"mse", "r2">>]}

InitMonitor ==
    /\ __init__({"mse"}, NoCases)
    /\ array = None
    /\ convergence = None
    /\ para = None
    /\ raum = None
    /\ rendered = None
    /\ InitLater
    /\ monitor_arg \in MonitorArgs

NextMonitor == FitRun \/ DryRunWide \/ StartSearch \/ TrialWide \/ PostOptimizeWide \/ Persist

SpecMonitor == InitMonitor /\ [][NextMonitor]_vars

\* the metrics the caller asked for
Monitored == IF monitor_arg = None THEN Elems(Monitor[mode]) ELSE Elems(monitor_arg.v)
RaisedIn == {log[j].what.in : j \in {h \in DOMAIN log : log[h].ev = "raise"}}

\* C22: with a list of metric names as the monitor argument of the constructor exactly
\* those metrics are computed and stored for every variant by fit, and with monitor None
\* the default list of the mode: every stored entry has exactly these metrics, and a
\* variant that was built and trained does not fail for want of them.
C22_MonitorIsComputed ==
    /\ \A m \in DOMAIN metrics : \A sp \in {"train", "test"} :
           DOMAIN metrics[m][sp] = Monitored
    /\ RaisedIn \subseteq {"build", "fit", "getattr", "no"}

(***************************************************************************)
(* The states of the variants of one fit call                              *)
(***************************************************************************)
\* where the variant at place i of include is, given the loop index, the position of
\* fit and the driver
Status(i, at, where, driver) ==
    IF i < at THEN "Completed"
    ELSE IF i > at THEN "Pending"
    ELSE CASE where = "search" ->
                  IF driver.calls < driver.num_iterations THEN "Running" ELSE "PostOptimizing"
           [] where = "raised" -> "Failed"
           [] OTHER -> "Pending"
Now(i) == Status(i, pos, pc, optimizer)
Rank(status) ==
    CASE status = "Pending" -> 0
      [] status = "Running" -> 1
      [] status = "PostOptimizing" -> 2
      [] status = "Completed" -> 3
      [] status = "Failed" -> 4
Active == {i \in DOMAIN include : Now(i) \in {"Running", "PostOptimizing"}}

Indices(n) == 0..(n - 1)

\* C24: during the search of a variant the snapshots of its trials are stored under the
\* indices 0, 1, 2, ... in evaluation order, one per trial without gap or repeat,
\* starting at 0 for each variant; post-optimization adds no record, and a dry_run
\* variant ends with an empty iteration record.
C24_IterationIndices ==
    [][/\ pc' = "search" =>
              /\ iter_' = optimizer'.calls
              /\ DOMAIN model_iter_metric' = Indices(optimizer'.calls)
       /\ (pc = "loop" /\ pc' = "search") => (iter_' = 0 /\ model_iter_metric' = EmptyDict)
       /\ (pc = "search" /\ pc' = "search") =>
              /\ iter_' = iter_ + 1
              /\ \A k \in DOMAIN model_iter_metric : model_iter_metric'[k] = model_iter_metric[k]
              /\ model_iter_metric'[iter_] = metrics_of(model_'.pred.validation)
       /\ (pc = "search" /\ pc' = "loop") =>
              /\ iter_metrics'[model_type] = model_iter_metric
              /\ DOMAIN iter_metrics'[model_type] = Indices(args.num_iterations)
       /\ (pc = "loop" /\ pc' = "loop" /\ pos' = pos + 1 /\ ~excluded) =>
              iter_metrics'[model_type] = EmptyDict]_vars

\* two different variants have been searched, each with MaxIter trials
C24_Witness ==
    /\ pc = "loop"
    /\ args.run_type = "optimize"
    /\ Len(include) = 2 /\ pos = 3
    /\ include[1] # include[2]
    /\ \A i \in 1..2 : DOMAIN iter_metrics[include[i]] = Indices(MaxIter)

\* the last trial's objective was not finite and became the sentinel
Replaced == AfterTrial /\ ~isfinite(objective(model_.pred.validation, val_metric))
LastRecord == model_iter_metric[iter_ - 1]
HoldsRaw ==
    /\ val_metric \in DOMAIN LastRecord
    /\ LastRecord[val_metric] = Metrics(model_.pred.validation, val_metric)
    /\ ~isfinite(LastRecord[val_metric])

\* C25: when a trial's objective is not finite and is replaced by the sentinel, the
\* per-iteration record of that trial still holds the raw non-finite value of the
\* validation metric, for every designated validation metric.
C25_RawValueInRecord == Replaced => HoldsRaw

\* C25, amended: ... for every designated validation metric that is among the
\* monitored metrics; for another validation metric the record has no entry for it.
C25_RawValueInRecordIfMonitored ==
    Replaced =>
        IF val_metric \in Elems(monitor) THEN HoldsRaw ELSE val_metric \notin DOMAIN LastRecord

C25_Witness ==
    /\ Replaced
    /\ val_metric \in Elems(monitor) \cap Flipped
    /\ LastObjective = Num(Sentinel)
    /\ LastRecord[val_metric] = NaN

(***************************************************************************)
(* SpecCases: experiments constructed with cases                           *)
(***************************************************************************)
D == Name("D")
E == Name("E")
Pair(key, val) == [key |-> key, val |-> val]
CaseArgs ==
    {NoCases,
     <<Pair(D, [units |-> 1])>>,
     <<Pair(WithPrefix(D), [units |-> 1])>>,
     <<Pair(D, [units |-> 1]), Pair(WithPrefix(D), [units |-> 2])>>,
     <<Pair(D, [units |-> 1]), Pair(E, [units |-> 2])>>,
     <<Pair(A, [units |-> 1])>>}
CaseCalls ==
    {FitArgs("optimize", po, ArgList(<<D>>), ArgList(<<>>), n) :
        po \in PostOptimizePolicies, n \in 1..MaxIter}
    \cup {FitArgs("dry_run", "eval_best", inc, ArgList(<<>>), 1) :
        inc \in {ArgList(<<D>>), ArgList(<<A>>), ArgNone}}

InitCases ==
    /\ \E arg \in CaseArgs : __init__({"mse"}, arg)
    /\ array = None
    /\ convergence = None
    /\ para = None
    /\ raum = None
    /\ rendered = None
    /\ InitLater
    /\ monitor_arg = None

FitCases == \E a \in CaseCalls : fit(a)
TrialCases == \E x \in RunAssignments, raises \in Raises, r \in OneResult : trial(x, raises, r)

NextCases == FitCases \/ DryRun \/ StartSearch \/ TrialCases \/ PostOptimize \/ Persist

SpecCases == InitCases /\ [][NextCases]_vars

\* C26: the working variant set the constructor builds holds each canonical name at
\* most once, also when a case has the canonical name of a builder method.
C26_VariantsOnce ==
    \A i, j \in DOMAIN models : i # j => models[i] # models[j]

\* C28: running trials never changes the case overrides of a variant: the case
\* dictionary the experiment holds stays the one supplied at construction, and each
\* trial's configuration is that case merged with only that trial's suggested parameters.
C28_TrialsKeepCases ==
    [][/\ cases' = cases
       /\ (pc = "search" /\ pc' = "search" /\ has_case) =>
              model_'.kws.case = update(cases.at[model_type], optimizer'.history[iter_'].x)]_vars

(***************************************************************************)
(* SpecStatic: the static parameters of DLRegressionExperiments, switched  *)
(* on and off through their setters, and what model_MLP makes of them      *)
(***************************************************************************)
MaxOwn == 2

\* a parameter of the search space, as far as the experiment looks at it
Parameter(name) == [t |-> "Parameter", v |-> <<Str(name)>>]
\* bool(x) of None, a list and an object without __bool__ and __len__
bool(x) == IF x = None THEN FALSE ELSE IF x.t = "list" THEN x.v # <<>> ELSE TRUE
\* dict.get(key, default)
get(d, key, default) == IF key \in DOMAIN d THEN d[key] ELSE default

\* DLRegressionExperiments.__init__ with **model_kws and without param_space and x0
DLRegressionExperiments(model_kws) ==
    [lookback_space |-> list(<<>>),
     batch_size_space |-> Parameter("batch_size"),
     lr_space |-> Parameter("lr"),
     model_kws |-> model_kws,
     param_space |-> None,
     x0 |-> None]

static_space(self) ==
    LET s1 == IF bool(self.lookback_space) THEN <<self.lookback_space>> ELSE <<>>
        s2 == IF bool(self.batch_size_space) THEN Append(s1, self.batch_size_space) ELSE s1
    IN  IF bool(self.lr_space) THEN Append(s2, self.lr_space) ELSE s2

static_x0_without_fallback(self) ==
    LET x1 == IF bool(self.lookback_space) /\ "lookback" \in DOMAIN self.model_kws
              THEN <<self.model_kws.lookback>> ELSE <<>>
        x2 == IF bool(self.batch_size_space) /\ "batch_size" \in DOMAIN self.model_kws
              THEN Append(x1, self.model_kws.batch_size) ELSE x1
    IN  IF bool(self.lr_space) /\ "lr" \in DOMAIN self.model_kws
        THEN Append(x2, self.model_kws.lr) ELSE x2

static_x0(self) ==
    LET x1 == IF bool(self.lookback_space)
              THEN <<get(self.model_kws, "lookback", PyInt(5))>> ELSE <<>>
        x2 == IF bool(self.batch_size_space)
              THEN Append(x1, get(self.model_kws, "batch_size", PyInt(32))) ELSE x1
    IN  IF bool(self.lr_space)
        THEN Append(x2, get(self.model_kws, "lr", Number(1, 1000, "float"))) ELSE x2

\* self.spaces["MLP"]: the variant's own space and default point, n parameters long
spaces(n) ==
    [param_space |-> [i \in 1..n |-> Parameter("units")],
     x0 |-> [i \in 1..n |-> PyInt(i)]]

\* the assignments of model_MLP to self.param_space and self.x0
model_MLP(self, own) ==
    [self EXCEPT !.param_space = list(own.param_space \o static_space(self)),
                 !.x0 = list(own.x0 \o static_x0(self))]

\* what the caller can assign to a static space: None, [], a parameter, or a list
\* holding one as the class docstring writes it
StaticSpaces(name) == {None, list(<<>>), Parameter(name), list(<<Parameter(name)>>)}
StaticNames == {"lookback", "batch_size", "lr"}
ModelKws ==
    {[x \in {} |-> None],
     [lookback |-> PyInt(3)],
     [batch_size |-> PyInt(8), lr |-> Number(1, 100, "float")],
     [lookback |-> PyInt(3), batch_size |-> PyInt(8), lr |-> Number(1, 100, "float")]}

InitStatic ==
    /\ __init__({"mse"}, NoCases)
    /\ array = None
    /\ convergence = None
    /\ para = None
    /\ raum = None
    /\ rendered = None
    /\ monitor_arg = None
    /\ plotted = None
    /\ process = None
    /\ \E model_kws \in ModelKws : dl = DLRegressionExperiments(model_kws)

Untouched ==
    UNCHANGED <<models, subclass, val_metric, pc, args, include, pos, metrics, features,
                iter_metrics, config, model_, optimizer, iter_, model_iter_metric, opt_dirs,
                log, disk, loaded, sorted, cv_scores_, fits, array, convergence, para, raum,
                rendered, monitor_arg, cases>>

\* exp.lookback_space = ..., exp.batch_size_space = ..., exp.lr_space = ...
SetLookbackSpace ==
    /\ \E space \in StaticSpaces("lookback") : dl' = [dl EXCEPT !.lookback_space = space]
    /\ UNCHANGED <<plotted, process>>
    /\ Untouched
SetBatchSizeSpace ==
    /\ \E space \in StaticSpaces("batch_size") : dl' = [dl EXCEPT !.batch_size_space = space]
    /\ UNCHANGED <<plotted, process>>
    /\ Untouched
SetLrSpace ==
    /\ \E space \in StaticSpaces("lr") : dl' = [dl EXCEPT !.lr_space = space]
    /\ UNCHANGED <<plotted, process>>
    /\ Untouched
ModelMLP ==
    /\ \E n \in 0..MaxOwn : dl' = model_MLP(dl, spaces(n))
    /\ UNCHANGED <<plotted, process>>
    /\ Untouched

NextStatic == SetLookbackSpace \/ SetBatchSizeSpace \/ SetLrSpace \/ ModelMLP
SpecStatic == InitStatic /\ [][NextStatic]_vars

\* the static parameters that are switched on, in the order of the static space
StaticOrder == <<"lookback", "batch_size", "lr">>
SpaceOf(name) ==
    CASE name = "lookback" -> dl.lookback_space
      [] name = "batch_size" -> dl.batch_size_space
      [] name = "lr" -> dl.lr_space
IsEnabled(name) == bool(SpaceOf(name))
EnabledStatic == SelectSeq(StaticOrder, IsEnabled)
Fallback(name) ==
    CASE name = "lookback" -> PyInt(5)
      [] name = "batch_size" -> PyInt(32)
      [] name = "lr" -> Number(1, 1000, "float")

\* C27: whichever static parameters are switched on, the static default point has one
\* value for each of them, in the order of the static space, the value being the model
\* keyword argument of that name or else 5, 32, 0.001; and once a variant whose own
\* default point is as long as its own space has appended the static part, x0 is as
\* long as param_space.
C27_StaticDefaultPoint ==
    /\ Len(static_x0(dl)) = Len(EnabledStatic)
    /\ Len(static_space(dl)) = Len(EnabledStatic)
    /\ \A i \in DOMAIN EnabledStatic :
           /\ static_space(dl)[i] = SpaceOf(EnabledStatic[i])
           /\ static_x0(dl)[i] = IF EnabledStatic[i] \in DOMAIN dl.model_kws
                                 THEN dl.model_kws[EnabledStatic[i]]
                                 ELSE Fallback(EnabledStatic[i])
    /\ dl.x0 # None => Len(dl.x0.v) = Len(dl.param_space.v)
C27_Witness ==
    /\ dl.x0 # None
    /\ Len(dl.x0.v) = MaxOwn + 3
    /\ bool(dl.lookback_space) /\ bool(dl.batch_size_space) /\ bool(dl.lr_space)
    /\ DOMAIN dl.model_kws = {"lookback"}
    /\ dl.x0.v[MaxOwn + 1] = PyInt(3)
    /\ dl.x0.v[MaxOwn + 2] = PyInt(32)

(***************************************************************************)
(* SpecPlot: plot_cv_scores after a fit call with or without               *)
(* cross_validate                                                          *)
(***************************************************************************)
\* consider_exclude when models_to_filter is a dict: each element is asserted to be a
\* model and a key, then popped; a failed assertion leaves the earlier pops in place
RECURSIVE exclude_pop_loop(_, _, _)
exclude_pop_loop(exc, mods, to_filter) ==
    IF exc = <<>> THEN [raised |-> FALSE, val |-> to_filter]
    ELSE IF Head(exc) \notin Elems(mods) THEN [raised |-> TRUE, val |-> to_filter]
    ELSE IF Head(exc) \notin DOMAIN to_filter THEN [raised |-> TRUE, val |-> to_filter]
    ELSE exclude_pop_loop(Tail(exc), mods, DictPop(to_filter, Head(exc)))

consider_exclude_of_dict(exc, mods, to_filter) ==
    exclude_pop_loop([j \in DOMAIN exc |-> WithPrefix(exc[j])], mods, to_filter)

\* _consider_include: a new dict of the included names that are keys of to_filter,
\* here as the list of its keys in insertion order
_consider_include(inc, mods, to_filter) ==
    LET checked == _check_include_arg(inc, mods)
    IN  [raised |-> checked.raised,
         val |-> SelectSeq(checked.val, LAMBDA m : m \in DOMAIN to_filter)]

Plotted(returned, labels) == [returned |-> returned, labels |-> labels]

plot_cv_scores(exc, inc) ==
    /\ pc = "done"
    /\ plotted = None
    /\ IF DOMAIN cv_scores_ = {}
       THEN /\ plotted' = Plotted("None", <<>>)
            /\ UNCHANGED cv_scores_
       ELSE LET kept == consider_exclude_of_dict(exclude_list(exc), models, cv_scores_)
                shown == _consider_include(inc, models, kept.val)
            IN  /\ cv_scores_' = kept.val
                /\ plotted' = IF kept.raised \/ shown.raised
                              THEN Plotted("raised", <<>>)
                              ELSE Plotted("axis", shown.val)
    /\ UNCHANGED <<dl, process, rendered, monitor_arg, cases, array, convergence, para, raum,
                   fits, models, subclass, val_metric, pc, args, include, pos, metrics,
                   features, iter_metrics, config, model_, optimizer, iter_,
                   model_iter_metric, opt_dirs, log, disk, loaded, sorted>>

PlotExcludes == {ArgNone, ArgStr(A), ArgList(<<B, A>>)}
PlotIncludes == {ArgNone, ArgStr(A)}
PlotCvScores == \E exc \in PlotExcludes, inc \in PlotIncludes : plot_cv_scores(exc, inc)

NextPlot == FitCv \/ DryRunCv \/ StartSearch \/ TrialCv \/ PostOptimizeCv \/ Persist \/ PlotCvScores
SpecPlot == Init /\ [][NextPlot]_vars

\* C29: plot_cv_scores only reads: the stored table of cross-validation scores is the
\* same after the call as before it, whatever exclude and include are.
C29_PlotLeavesScores == [][plotted' # plotted => cv_scores_' = cv_scores_]_vars

(***************************************************************************)
(* SpecNames: Real and Integer parameters constructed one after another in *)
(* one process, with and without a name                                    *)
(***************************************************************************)
MaxParams == 3

\* the class attribute `counter = 0` of Real and of Integer, and no instance yet
Classes == [Real |-> [counter |-> 0], Integer |-> [counter |-> 0], made |-> <<>>]

\* f'real_{self.counter}' and f'integer_{self.counter}'
auto_name(cls, counter) ==
    (IF cls = "Real" THEN "real_" ELSE "integer_") \o ToString(counter)

\* the first lines of Real.__init__ and Integer.__init__ after the bounds:
\* `self.counter += 1` reads the attribute through the instance, which finds the class
\* attribute, and binds the sum on the instance; the class attribute keeps its value
name__init__(classes, cls, kwargs) ==
    LET counter == classes[cls].counter + 1
        name == IF "name" \in DOMAIN kwargs THEN kwargs.name ELSE auto_name(cls, counter)
    IN  [classes EXCEPT !.made = Append(@, [cls |-> cls, counter |-> counter, name |-> name,
                                            named |-> "name" \in DOMAIN kwargs])]

NameKwargs == {[x \in {} |-> ""], [name |-> "lr"], [name |-> "real_1"]}

InitNames ==
    /\ __init__({"mse"}, NoCases)
    /\ array = None
    /\ convergence = None
    /\ para = None
    /\ raum = None
    /\ rendered = None
    /\ monitor_arg = None
    /\ plotted = None
    /\ dl = None
    /\ process = Classes

Construct(cls) ==
    /\ Len(process.made) < MaxParams
    /\ \E kwargs \in NameKwargs : process' = name__init__(process, cls, kwargs)
    /\ UNCHANGED <<dl, plotted>>
    /\ Untouched
ConstructReal == Construct("Real")
ConstructInteger == Construct("Integer")

NextNames == ConstructReal \/ ConstructInteger
SpecNames == InitNames /\ [][NextNames]_vars

\* C30: two Real parameters, or two Integer parameters, constructed without a name in
\* the same process carry different generated names.
C30_AutoNamesDistinct ==
    \A i, j \in DOMAIN process.made :
        (/\ i # j
         /\ process.made[i].cls = process.made[j].cls
         /\ ~process.made[i].named
         /\ ~process.made[j].named) => process.made[i].name # process.made[j].name

====
